---- MODULE Spec2Model ----
(***************************************************************************)
(* RVCE Campus Runner: grid map, tile layer, navigation graph, the two     *)
(* path searches (find_path_bfs, find_path_astar), the tile-effect         *)
(* handler, the NPC state machine, the map events, and the construction    *)
(* events and reset of a playing session.                                  *)
(*                                                                         *)
(* Cells are pairs <<x, y>>.  Tile weights are kept in tenths (0.5 -> 5,   *)
(* 0.3 -> 3) so that they stay integers.                                   *)
(***************************************************************************)
EXTENDS Integers, Sequences, FiniteSets, TLC

VARIABLES
    grid,                     \* RVCEGameMap.grid: cell -> 0 (open) / 1 (blocked)
    tile_map,                 \* tile layer: cell -> TileType
    adj_list,                 \* RVCEGraph.adj_list: defaultdict(list), keys are cells
    weights,                  \* RVCEGraph.weights: dict keyed by <<u, v>>
    last,                     \* the last call made and what it returned
    builds,                   \* consecutive builds of the graph (counted up to 2)
    player_pos,               \* RVCECampusRunner.player_pos
    target,                   \* building position of the current task
    construction_sites,       \* list of <<x, y, timer>>
    construction_spawn_timer, \* seconds until the next construction spawn
    current_path,             \* RVCECampusRunner.current_path
    algorithm_stats,          \* RVCECampusRunner.algorithm_stats
    handler,                  \* the TileEffectHandler of the session
    npc,                      \* one NPC of the NPCManager
    used_pathfinding,         \* RVCECampusRunner.used_pathfinding
    active_events,            \* the map events applied and not yet reverted
    buildings,                \* RVCECampusRunner.buildings: the cells, in dict order
    task_manager,             \* TaskManager: tasks, completed_tasks, current_task
    score,                    \* RVCECampusRunner.score
    task_steps,               \* RVCECampusRunner.task_steps
    expected_path_length,     \* RVCECampusRunner.expected_path_length
    undo_stack,               \* UndoStack.stack
    npcs,                     \* NPCManager.npcs: type and cell of each NPC
    error,                    \* the exception that has ended the program, if any
    event_manager,            \* the EventManager: queue, active events, timer
    assigned                  \* history: where and how far from its building the
                              \* current task was assigned, and the moves made since

vars == <<grid, tile_map, adj_list, weights, last, builds, player_pos, target,
          construction_sites, construction_spawn_timer, current_path,
          algorithm_stats, handler, npc, used_pathfinding, active_events,
          buildings, task_manager, score, task_steps, expected_path_length,
          undo_stack, npcs, error, event_manager, assigned>>

graphVars == <<adj_list, weights>>
mapVars == <<grid, tile_map>>
sessionVars == <<player_pos, target, construction_sites,
                 construction_spawn_timer, current_path, algorithm_stats>>
actorVars == <<handler, npc, used_pathfinding, active_events>>
playVars == <<buildings, task_manager, score, task_steps, expected_path_length,
              undo_stack, npcs, error, event_manager, assigned>>

----------------------------------------------------------------------------
(* Bounds *)

Width == 3
Height == 3
MaxWalls == 2
MaxSpecial == 1
MaxSites == 2
MaxSessionWalls == 1

----------------------------------------------------------------------------
(* Grid map and tile layer *)

Cells == (0 .. Width - 1) \X (0 .. Height - 1)

TileType == {"NORMAL", "WALL", "ICE", "GRASS", "PORTAL_A", "PORTAL_B", "TRAP",
             "BOOSTER", "CONSTRUCTION", "WATER", "LOCKED_GATE", "KEY"}

Infinity == 1000000

TilePropWalkable(t) == t \notin {"WALL", "CONSTRUCTION", "LOCKED_GATE"}

TilePropWeight(t) ==
    CASE t = "ICE" -> 5
      [] t = "GRASS" -> 20
      [] t = "BOOSTER" -> 3
      [] t = "WATER" -> 40
      [] t \in {"WALL", "CONSTRUCTION", "LOCKED_GATE"} -> Infinity
      [] OTHER -> 10

InBounds(x, y) == 0 <= x /\ x < Width /\ 0 <= y /\ y < Height

\* tile_map=None is the empty function
NoTileMap == <<>>

HasTileMap(tm) == DOMAIN tm # {}

\* a bounds test without the lower bounds: a negative index then counts from
\* the end of the list, as list indexing does
is_walkable_wrap(g, x, y, tm, has_key) ==
    IF x < Width /\ y < Height
    THEN LET c == <<x % Width, y % Height>>
         IN  IF g[c] = 1
             THEN FALSE
             ELSE IF HasTileMap(tm)
                  THEN IF ~TilePropWalkable(tm[c])
                       THEN tm[c] = "LOCKED_GATE" /\ has_key
                       ELSE TRUE
                  ELSE TRUE
    ELSE FALSE

\* RVCEGameMap.is_walkable(x, y, tile_map, has_key)
is_walkable(g, x, y, tm, has_key) ==
    IF InBounds(x, y)
    THEN IF g[<<x, y>>] = 1
         THEN FALSE
         ELSE IF HasTileMap(tm)
              THEN IF ~TilePropWalkable(tm[<<x, y>>])
                   THEN tm[<<x, y>>] = "LOCKED_GATE" /\ has_key
                   ELSE TRUE
              ELSE TRUE
    ELSE FALSE

\* RVCEGameMap.get_cell_value
get_cell_value(g, x, y) == IF InBounds(x, y) THEN g[<<x, y>>] ELSE 1

----------------------------------------------------------------------------
(* Navigation graph *)

EmptyFcn == [c \in {} |-> <<>>]

\* reading a defaultdict(list): a missing key reads as the empty list ...
AdjGet(adj, u) == IF u \in DOMAIN adj THEN adj[u] ELSE <<>>

\* ... and the read inserts the key
AdjTouch(adj, u) ==
    IF u \in DOMAIN adj THEN adj
    ELSE [c \in DOMAIN adj \cup {u} |-> IF c = u THEN <<>> ELSE adj[c]]

InSeq(s, e) == \E i \in 1 .. Len(s) : s[i] = e

\* a mis-typed add_edge that appends without looking for the entry
add_edge_nocheck(G, u, v, weight) ==
    LET a1 == AdjTouch(G.adj, u)
        a2 == [a1 EXCEPT ![u] = Append(a1[u], v)]
        a3 == AdjTouch(a2, v)
        a4 == [a3 EXCEPT ![v] = Append(a3[v], u)]
        keys == DOMAIN G.w \cup {<<u, v>>, <<v, u>>}
    IN  [adj |-> a4,
         w |-> [k \in keys |->
                        IF k = <<u, v>> \/ k = <<v, u>> THEN weight
                        ELSE G.w[k]]]

\* RVCEGraph.add_edge
add_edge(G, u, v, weight) ==
    LET a1 == AdjTouch(G.adj, u)
        a2 == IF ~InSeq(a1[u], v) THEN [a1 EXCEPT ![u] = Append(a1[u], v)] ELSE a1
        a3 == AdjTouch(a2, v)
        a4 == IF ~InSeq(a3[v], u) THEN [a3 EXCEPT ![v] = Append(a3[v], u)] ELSE a3
        keys == DOMAIN G.w \cup {<<u, v>>, <<v, u>>}
    IN  [adj |-> a4,
         w |-> [k \in keys |->
                        IF k = <<u, v>> \/ k = <<v, u>> THEN weight
                        ELSE G.w[k]]]

\* a clear that leaves the mappings as they are
clear_keep(G) == G

\* RVCEGraph.clear
clear(G) == [adj |-> EmptyFcn, w |-> EmptyFcn]

\* the neighbour offsets, in the order of the loop
Dirs == << <<0, 1>>, <<1, 0>>, <<0, -1>>, <<-1, 0>> >>

\* the cells in row-major order: for y ... for x ...
CellAt(i) == << (i - 1) % Width, (i - 1) \div Width >>

\* the body of the inner loop of build_from_rvce_grid for the walkable cell
\* <<x, y>> and direction number d
BuildEdge(G, g, tm, x, y, d) ==
    LET nx == x + Dirs[d][1]
        ny == y + Dirs[d][2]
    IN  IF InBounds(nx, ny) /\ is_walkable(g, nx, ny, tm, FALSE)
        THEN LET weight == IF HasTileMap(tm) THEN TilePropWeight(tm[<<nx, ny>>])
                           ELSE 10
             IN  add_edge(G, <<x, y>>, <<nx, ny>>, weight)
        ELSE G

RECURSIVE BuildDirs(_, _, _, _, _, _)
\* for dx, dy in [(0, 1), (1, 0), (0, -1), (-1, 0)]
BuildDirs(G, g, tm, x, y, d) ==
    IF d > Len(Dirs) \/ DOMAIN G = {} THEN G
    ELSE BuildDirs(BuildEdge(G, g, tm, x, y, d), g, tm, x, y, d + 1)

RECURSIVE BuildLoop(_, _, _, _)
\* for y in range(height): for x in range(width), at cell number i
BuildLoop(G, g, tm, i) ==
    IF i > Width * Height \/ DOMAIN G = {} THEN G
    ELSE LET x == CellAt(i)[1]
             y == CellAt(i)[2]
         IN  IF is_walkable(g, x, y, tm, FALSE)
             THEN BuildLoop(BuildDirs(G, g, tm, x, y, 1), g, tm, i + 1)
             ELSE BuildLoop(G, g, tm, i + 1)

\* RVCEGraph.build_from_rvce_grid
build_from_rvce_grid(G, g, tm) == BuildLoop(clear(G), g, tm, 1)

----------------------------------------------------------------------------
(* Queues *)

\* a dequeue that takes the newest entry (a stack)
bfs_dequeue_lifo(q) == [item |-> q[Len(q)], queue |-> SubSeq(q, 1, Len(q) - 1)]

\* BFSQueue.dequeue on a non-empty queue: popleft
bfs_dequeue(q) == [item |-> Head(q), queue |-> Tail(q)]

\* BFSQueue.enqueue
bfs_enqueue(q, item) == Append(q, item)

\* the order of Python tuples (priority, (x, y))
EntryLess(a, b) ==
    \/ a[1] < b[1]
    \/ a[1] = b[1] /\ a[2][1] < b[2][1]
    \/ a[1] = b[1] /\ a[2][1] = b[2][1] /\ a[2][2] < b[2][2]

RemoveAt(s, i) == SubSeq(s, 1, i - 1) \o SubSeq(s, i + 1, Len(s))

\* PriorityQueue.push
pq_push(heap, item, priority) == Append(heap, <<priority, item>>)

\* a pop that hands out the greatest entry
pq_pop_max(heap) ==
    LET i == CHOOSE k \in 1 .. Len(heap) :
                 /\ \A j \in 1 .. Len(heap) : ~EntryLess(heap[k], heap[j])
                 /\ \A j \in 1 .. k - 1 : heap[j] # heap[k]
    IN  [item |-> heap[i][2], heap |-> RemoveAt(heap, i)]

\* PriorityQueue.pop on a non-empty heap: heappop returns the least entry
pq_pop(heap) ==
    LET i == CHOOSE k \in 1 .. Len(heap) :
                 /\ \A j \in 1 .. Len(heap) : ~EntryLess(heap[j], heap[k])
                 /\ \A j \in 1 .. k - 1 : heap[j] # heap[k]
    IN  [item |-> heap[i][2], heap |-> RemoveAt(heap, i)]

----------------------------------------------------------------------------
(* Path search *)

Abs(n) == IF n < 0 THEN -n ELSE n

\* RVCECampusRunner.heuristic
heuristic(a, b) == Abs(a[1] - b[1]) + Abs(a[2] - b[2])

\* a path handed back in the order it was collected, goal first
Unreversed(s) == s

\* path[::-1]
Reverse(s) == [i \in 1 .. Len(s) |-> s[Len(s) + 1 - i]]

RECURSIVE WalkBack(_, _)
\* while current in parent: path.append(current); current = parent[current]
WalkBack(parent, current) ==
    IF current \in DOMAIN parent
    THEN <<current>> \o WalkBack(parent, parent[current])
    ELSE <<>>

\* a reconstruction that leaves out path.append(start)
reconstruct_nostart(parent, current, start) ==
    Reverse(WalkBack(parent, current))

\* the path handed back when the goal is taken from the frontier
reconstruct(parent, current, start) ==
    Reverse(Append(WalkBack(parent, current), start))

FcnPut(f, k, v) == [c \in DOMAIN f \cup {k} |-> IF c = k THEN v ELSE f[c]]

RECURSIVE BfsNeighborsBlind(_, _, _, _, _)
\* the neighbour loop without the test for CONSTRUCTION tiles
BfsNeighborsBlind(st, current, nbrs, i, tm) ==
    IF i > Len(nbrs) THEN st
    ELSE LET neighbor == nbrs[i]
         IN  IF neighbor \in st.visited
             THEN BfsNeighborsBlind(st, current, nbrs, i + 1, tm)
             ELSE BfsNeighborsBlind(
                      [st EXCEPT !.visited = @ \cup {neighbor},
                                 !.parent = FcnPut(@, neighbor, current),
                                 !.queue = bfs_enqueue(@, neighbor)],
                      current, nbrs, i + 1, tm)

RECURSIVE BfsNeighbors(_, _, _, _, _)
\* the for loop over adj_list[current] of find_path_bfs, at entry i of nbrs
BfsNeighbors(st, current, nbrs, i, tm) ==
    IF i > Len(nbrs) THEN st
    ELSE LET neighbor == nbrs[i]
         IN  IF neighbor \in st.visited
             THEN BfsNeighbors(st, current, nbrs, i + 1, tm)
             ELSE IF /\ InBounds(neighbor[1], neighbor[2])
                     /\ tm[neighbor] = "CONSTRUCTION"
                  THEN BfsNeighbors(st, current, nbrs, i + 1, tm)
                  ELSE BfsNeighbors(
                           [st EXCEPT !.visited = @ \cup {neighbor},
                                      !.parent = FcnPut(@, neighbor, current),
                                      !.queue = bfs_enqueue(@, neighbor)],
                           current, nbrs, i + 1, tm)

RECURSIVE BfsNeighborsLate(_, _, _, _, _)
\* the neighbour loop without visited.add(neighbor)
BfsNeighborsLate(st, current, nbrs, i, tm) ==
    IF i > Len(nbrs) THEN st
    ELSE LET neighbor == nbrs[i]
         IN  IF neighbor \in st.visited
             THEN BfsNeighborsLate(st, current, nbrs, i + 1, tm)
             ELSE IF /\ InBounds(neighbor[1], neighbor[2])
                     /\ tm[neighbor] = "CONSTRUCTION"
                  THEN BfsNeighborsLate(st, current, nbrs, i + 1, tm)
                  ELSE BfsNeighborsLate(
                           [st EXCEPT !.parent = IF neighbor \in DOMAIN @ THEN @
                                                 ELSE FcnPut(@, neighbor, current),
                                      !.queue = bfs_enqueue(@, neighbor)],
                           current, nbrs, i + 1, tm)

RECURSIVE BfsLoopLate(_, _, _, _)
\* a search loop that marks a cell visited when it is dequeued
BfsLoopLate(st, start, goal, tm) ==
    IF st.queue = <<>>
    THEN [path |-> <<>>, nodes_explored |-> st.nodes_explored, adj |-> st.adj]
    ELSE LET d == bfs_dequeue(st.queue)
             current == d.item
             n == st.nodes_explored + 1
         IN  IF current = goal
             THEN [path |-> reconstruct(st.parent, current, start),
                   nodes_explored |-> n, adj |-> st.adj]
             ELSE LET adj1 == AdjTouch(st.adj, current)
                      st1 == [st EXCEPT !.queue = d.queue, !.nodes_explored = n,
                                        !.adj = adj1,
                                        !.visited = @ \cup {current}]
                  IN  BfsLoopLate(BfsNeighborsLate(st1, current, adj1[current], 1, tm),
                                  start, goal, tm)

RECURSIVE BfsLoop(_, _, _, _)
\* the while loop of find_path_bfs
BfsLoop(st, start, goal, tm) ==
    IF st.queue = <<>>
    THEN [path |-> <<>>, nodes_explored |-> st.nodes_explored, adj |-> st.adj]
    ELSE LET d == bfs_dequeue(st.queue)
             current == d.item
             n == st.nodes_explored + 1
         IN  IF current = goal
             THEN [path |-> reconstruct(st.parent, current, start),
                   nodes_explored |-> n, adj |-> st.adj]
             ELSE LET adj1 == AdjTouch(st.adj, current)
                      st1 == [st EXCEPT !.queue = d.queue, !.nodes_explored = n,
                                        !.adj = adj1]
                  IN  BfsLoop(BfsNeighbors(st1, current, adj1[current], 1, tm),
                              start, goal, tm)

\* RVCECampusRunner.find_path_bfs: the path, the count stored in
\* algorithm_stats["BFS"], and adj_list as the defaultdict reads leave it
find_path_bfs(adj, tm, start, goal) ==
    BfsLoop([queue |-> bfs_enqueue(<<>>, start), visited |-> {start},
             parent |-> EmptyFcn, nodes_explored |-> 0, adj |-> adj],
            start, goal, tm)

RECURSIVE AstarNeighbors(_, _, _, _, _)
\* the for loop over adj_list[current] of find_path_astar
AstarNeighbors(st, current, nbrs, i, goal) ==
    IF i > Len(nbrs) THEN st
    ELSE LET neighbor == nbrs[i]
             tentative_g_score == st.g_score[current] + 1
         IN  IF \/ neighbor \notin DOMAIN st.g_score
                \/ tentative_g_score < st.g_score[neighbor]
             THEN AstarNeighbors(
                      [st EXCEPT !.came_from = FcnPut(@, neighbor, current),
                                 !.g_score = FcnPut(@, neighbor, tentative_g_score),
                                 !.open_set = pq_push(@, neighbor,
                                     tentative_g_score + heuristic(neighbor, goal))],
                      current, nbrs, i + 1, goal)
             ELSE AstarNeighbors(st, current, nbrs, i + 1, goal)

RECURSIVE AstarLoop(_, _, _)
\* the while loop of find_path_astar
AstarLoop(st, start, goal) ==
    IF st.open_set = <<>>
    THEN [path |-> <<>>, nodes_explored |-> st.nodes_explored, adj |-> st.adj]
    ELSE LET p == pq_pop(st.open_set)
             current == p.item
             n == st.nodes_explored + 1
         IN  IF current = goal
             THEN [path |-> reconstruct(st.came_from, current, start),
                   nodes_explored |-> n, adj |-> st.adj]
             ELSE LET adj1 == AdjTouch(st.adj, current)
                      st1 == [st EXCEPT !.open_set = p.heap, !.nodes_explored = n,
                                        !.adj = adj1]
                  IN  AstarLoop(AstarNeighbors(st1, current, adj1[current], 1, goal),
                                start, goal)

\* RVCECampusRunner.find_path_astar
find_path_astar(adj, start, goal) ==
    AstarLoop([open_set |-> pq_push(<<>>, start, 0),
               came_from |-> EmptyFcn,
               g_score |-> FcnPut(EmptyFcn, start, 0),
               nodes_explored |-> 0, adj |-> adj],
              start, goal)

----------------------------------------------------------------------------
(* Tile effects: TileEffectHandler *)

\* None
None == <<>>

\* the time penalty of a TRAP tile, in seconds
TrapPenalty == 5

\* the cells an ICE tile makes the player slide
IceSlide == 2

\* the seconds a BOOSTER tile lasts
BoosterSeconds == 3

\* TileEffectHandler.__init__
NewHandler ==
    [portal_a_pos |-> None, portal_b_pos |-> None,
     booster_active |-> FALSE, booster_timer |-> 0,
     slide_direction |-> None, slide_remaining |-> 0,
     has_key |-> FALSE, triggered_traps |-> {}]

\* no NPC has been spawned
NoNpc == [state |-> "NONE"]

\* TileEffectHandler.set_portals
set_portals(h, pos_a, pos_b) ==
    [h EXCEPT !.portal_a_pos = pos_a, !.portal_b_pos = pos_b]

\* what process_tile hands back: the handler as the call leaves it, the three
\* values returned, and the game map passed in
TileResult(h1, new_pos, time_penalty, message, g) ==
    [handler |-> h1, new_pos |-> new_pos, time_penalty |-> time_penalty,
     message |-> message, grid |-> g]

\* a trap branch that never records the cell it was triggered at
trap_effect_forgetful(h, pos, g) ==
    IF pos \notin h.triggered_traps
    THEN TileResult(h, pos, TrapPenalty, "TRAP", g)
    ELSE TileResult(h, pos, 0, "None", g)

\* the TRAP branch of process_tile
trap_effect(h, pos, g) ==
    IF pos \notin h.triggered_traps
    THEN TileResult([h EXCEPT !.triggered_traps = @ \cup {pos}],
                    pos, TrapPenalty, "TRAP", g)
    ELSE TileResult(h, pos, 0, "None", g)

\* portal branches that send the player to the portal stepped on
portal_effect_same(h, pos, tile_type, g) ==
    IF tile_type = "PORTAL_A" /\ h.portal_b_pos # None
    THEN TileResult(h, h.portal_a_pos, 0, "TELEPORT", g)
    ELSE IF tile_type = "PORTAL_B" /\ h.portal_a_pos # None
         THEN TileResult(h, h.portal_b_pos, 0, "TELEPORT", g)
         ELSE TileResult(h, pos, 0, "None", g)

\* the PORTAL_A and PORTAL_B branches of process_tile; a portal tile whose
\* condition fails reaches no later branch
portal_effect(h, pos, tile_type, g) ==
    IF tile_type = "PORTAL_A" /\ h.portal_b_pos # None
    THEN TileResult(h, h.portal_b_pos, 0, "TELEPORT", g)
    ELSE IF tile_type = "PORTAL_B" /\ h.portal_a_pos # None
         THEN TileResult(h, h.portal_a_pos, 0, "TELEPORT", g)
         ELSE TileResult(h, pos, 0, "None", g)

\* a KEY branch that only shows the message
key_effect_lost(h, pos, g) == TileResult(h, pos, 0, "KEY", g)

\* the KEY branch of process_tile
key_effect(h, pos, g) == TileResult([h EXCEPT !.has_key = TRUE], pos, 0, "KEY", g)

\* an ICE branch that moves the player at once and counts that step
ice_effect_moving(h, pos, direction, g) ==
    TileResult([h EXCEPT !.slide_direction = direction,
                         !.slide_remaining = IceSlide - 1],
               <<pos[1] + direction[1], pos[2] + direction[2]>>, 0, "ICE", g)

\* the ICE branch of process_tile
ice_effect(h, pos, direction, g) ==
    TileResult([h EXCEPT !.slide_direction = direction,
                         !.slide_remaining = IceSlide], pos, 0, "ICE", g)

\* TileEffectHandler.process_tile
process_tile(h, pos, tile_type, direction, g) ==
    CASE tile_type = "ICE" -> ice_effect(h, pos, direction, g)
      [] tile_type = "TRAP" -> trap_effect(h, pos, g)
      [] tile_type = "BOOSTER" ->
             TileResult([h EXCEPT !.booster_active = TRUE,
                                  !.booster_timer = BoosterSeconds], pos, 0, "BOOST", g)
      [] tile_type \in {"PORTAL_A", "PORTAL_B"} -> portal_effect(h, pos, tile_type, g)
      [] tile_type = "KEY" -> key_effect(h, pos, g)
      [] tile_type = "GRASS" -> TileResult(h, pos, 0, "GRASS", g)
      [] OTHER -> TileResult(h, pos, 0, "None", g)

\* a slide that marks the cell it leaves as blocked
process_slide_marking(h, pos, g, tm) ==
    LET keep(h1, p, g1) == [handler |-> h1, pos |-> p, grid |-> g1, tile_map |-> tm]
    IN  IF h.slide_remaining > 0 /\ h.slide_direction # None
        THEN LET new_x == pos[1] + h.slide_direction[1]
                 new_y == pos[2] + h.slide_direction[2]
             IN  IF is_walkable(g, new_x, new_y, NoTileMap, FALSE)
                 THEN keep([h EXCEPT !.slide_remaining = @ - 1], <<new_x, new_y>>,
                           [g EXCEPT ![pos] = 1])
                 ELSE keep([h EXCEPT !.slide_remaining = 0,
                                     !.slide_direction = None], pos, g)
        ELSE keep(h, pos, g)

\* TileEffectHandler.process_slide: the handler as the call leaves it, the
\* position returned, and the game map and tile layer passed in
process_slide(h, pos, g, tm) ==
    LET keep(h1, p) == [handler |-> h1, pos |-> p, grid |-> g, tile_map |-> tm]
    IN  IF h.slide_remaining > 0 /\ h.slide_direction # None
        THEN LET new_x == pos[1] + h.slide_direction[1]
                 new_y == pos[2] + h.slide_direction[2]
             IN  IF is_walkable(g, new_x, new_y, NoTileMap, FALSE)
                 THEN keep([h EXCEPT !.slide_remaining = @ - 1], <<new_x, new_y>>)
                 ELSE keep([h EXCEPT !.slide_remaining = 0,
                                     !.slide_direction = None], pos)
        ELSE keep(h, pos)

\* TileEffectHandler.update
handler_update(h, dt) ==
    IF h.booster_active
    THEN LET t == h.booster_timer - dt
         IN  [h EXCEPT !.booster_timer = t,
                       !.booster_active = IF t <= 0 THEN FALSE ELSE TRUE]
    ELSE h

\* TileEffectHandler.can_unlock_gate
can_unlock_gate(h) == h.has_key

----------------------------------------------------------------------------
(* The graph build and the two searches, applied to every small grid *)

GraphOf(a, b) == [adj |-> a, w |-> b]

\* RVCEGraph.__init__
NewGraph == [adj |-> EmptyFcn, w |-> EmptyFcn]

\* the tile kinds a layout may hold besides NORMAL and WALL
SpecialKinds == {"GRASS", "WATER", "ICE", "CONSTRUCTION", "LOCKED_GATE"}

\* reset_game marks every blocked cell WALL; a construction blocks its cell
GridOf(tm) == [c \in Cells |-> IF tm[c] \in {"WALL", "CONSTRUCTION"} THEN 1 ELSE 0]

Layouts ==
    UNION { UNION { { [c \in Cells |-> IF c \in ws THEN "WALL"
                                       ELSE IF c \in sp THEN k
                                       ELSE "NORMAL"] : k \in SpecialKinds }
                    : sp \in { q \in SUBSET (Cells \ ws) : Cardinality(q) <= MaxSpecial } }
            : ws \in { q \in SUBSET Cells : Cardinality(q) <= MaxWalls } }

AllNormal == [c \in Cells |-> "NORMAL"]

NoCall == [op |-> "none", start |-> <<0, 0>>, goal |-> <<0, 0>>,
           path |-> <<>>, nodes_explored |-> 0]

IdleSession ==
    /\ player_pos = <<0, 0>>
    /\ target = <<0, 0>>
    /\ construction_sites = <<>>
    /\ construction_spawn_timer = 0
    /\ current_path = <<>>
    /\ algorithm_stats = [BFS |-> 0, Astar |-> 0]
    /\ used_pathfinding = FALSE

\* TaskManager.__init__; current_task None is 0
NewTaskManager == [tasks |-> <<>>, completed_tasks |-> {}, current_task |-> 0]

\* RVCECampusRunner.__init__: event_manager = None
NoManager == <<>>

NoAssignment == [at |-> <<0, 0>>, hops |-> 0, moves |-> 0]

\* no buildings, tasks, NPCs and score: the player and the tasks are left out
IdlePlay ==
    /\ buildings = <<>>
    /\ task_manager = NewTaskManager
    /\ score = 0
    /\ task_steps = 0
    /\ expected_path_length = 0
    /\ undo_stack = <<>>
    /\ npcs = <<>>
    /\ error = "None"
    /\ event_manager = NoManager
    /\ assigned = NoAssignment

\* a grid and tile layer, and a graph object that is new or still holds the
\* graph of the all-open layer
InitSearch ==
    /\ tile_map \in Layouts
    /\ grid = GridOf(tile_map)
    /\ \E stale \in BOOLEAN :
           LET G == IF stale
                    THEN build_from_rvce_grid(NewGraph, GridOf(AllNormal), AllNormal)
                    ELSE NewGraph
           IN  /\ adj_list = G.adj
               /\ weights = G.w
    /\ last = NoCall
    /\ builds = 0
    /\ IdleSession
    /\ handler = NewHandler
    /\ npc = NoNpc
    /\ active_events = <<>>
    /\ IdlePlay

\* nav_graph.build_from_rvce_grid(game_map, tile_map)
BuildGraph ==
    /\ last.op \in {"none", "build"}
    /\ LET G == build_from_rvce_grid(GraphOf(adj_list, weights), grid, tile_map)
       IN  /\ adj_list' = G.adj
           /\ weights' = G.w
    /\ builds' = IF builds < 2 THEN builds + 1 ELSE builds
    /\ last' = [NoCall EXCEPT !.op = "build"]
    /\ UNCHANGED <<mapVars, sessionVars, actorVars, playVars>>

\* find_path_bfs(start, goal) on the graph just built
SearchBfs ==
    /\ last.op = "build"
    /\ builds = 1
    /\ \E start \in Cells, goal \in Cells :
           LET r == find_path_bfs(adj_list, tile_map, start, goal)
           IN  /\ adj_list' = r.adj
               /\ last' = [op |-> "bfs", start |-> start, goal |-> goal,
                           path |-> r.path, nodes_explored |-> r.nodes_explored]
               /\ algorithm_stats' = [algorithm_stats EXCEPT !.BFS = r.nodes_explored]
    /\ UNCHANGED <<mapVars, weights, builds, player_pos, target, construction_sites,
                   construction_spawn_timer, current_path, actorVars, playVars>>

\* find_path_astar(start, goal) on the graph just built
SearchAstar ==
    /\ last.op = "build"
    /\ builds = 1
    /\ \E start \in Cells, goal \in Cells :
           LET r == find_path_astar(adj_list, start, goal)
           IN  /\ adj_list' = r.adj
               /\ last' = [op |-> "astar", start |-> start, goal |-> goal,
                           path |-> r.path, nodes_explored |-> r.nodes_explored]
               /\ algorithm_stats' = [algorithm_stats EXCEPT !.Astar = r.nodes_explored]
    /\ UNCHANGED <<mapVars, weights, builds, player_pos, target, construction_sites,
                   construction_spawn_timer, current_path, actorVars, playVars>>

NextSearch == BuildGraph \/ SearchBfs \/ SearchAstar

SpecSearch == InitSearch /\ [][NextSearch]_vars

----------------------------------------------------------------------------
(* Reference notions the properties are stated with *)

\* equality of two dicts (functions with a domain of their own)
SameFcn(f, h) == DOMAIN f = DOMAIN h /\ \A k \in DOMAIN f : f[k] = h[k]

\* a cell that is open in the grid map and walkable by its tile kind (no key)
Open(c) == grid[c] = 0 /\ tile_map[c] \notin {"WALL", "CONSTRUCTION", "LOCKED_GATE"}

Adjacent(u, v) ==
    \/ u[1] = v[1] /\ (u[2] = v[2] + 1 \/ v[2] = u[2] + 1)
    \/ u[2] = v[2] /\ (u[1] = v[1] + 1 \/ v[1] = u[1] + 1)

\* one orthogonal step between two walkable cells
Step(u, v) == Open(u) /\ Open(v) /\ Adjacent(u, v)

RECURSIVE HopsFrom(_, _, _)
\* the least number of steps from the set S (k steps from the start) to goal;
\* -1 when no sequence of steps leads there
HopsFrom(S, goal, k) ==
    IF goal \in S THEN k
    ELSE LET T == S \cup {v \in Cells : \E u \in S : Step(u, v)}
         IN  IF T = S THEN -1 ELSE HopsFrom(T, goal, k + 1)

HopDist(start, goal) == HopsFrom({start}, goal, 0)

RECURSIVE Closure(_, _)
\* the cells joined to the cells of S by the adjacency lists
Closure(adj, S) ==
    LET T == S \cup {v \in Cells : \E u \in S : InSeq(AdjGet(adj, u), v)}
    IN  IF T = S THEN S ELSE Closure(adj, T)

\* the connected component of the navigation graph that holds start
Component(start) == Closure(adj_list, {start})

NoConstructionTile == \A c \in Cells : tile_map[c] # "CONSTRUCTION"

\* every two consecutive cells of the path are one step apart
IsWalk(path) == \A i \in 1 .. Len(path) - 1 : Step(path[i], path[i + 1])

NoDuplicates(s) == \A i, j \in 1 .. Len(s) : s[i] = s[j] => i = j

----------------------------------------------------------------------------
(* Properties of the graph build *)

\* C4: immediately after build_from_rvce_grid, v is in the adjacency list of u
\* exactly when u and v are both walkable and orthogonally adjacent; hence
\* adjacency is symmetric, no cell is its own neighbour, no neighbour is
\* listed twice and no cell has more than 4 neighbours.
C4_EdgeIffWalkableAdjacent ==
    last.op = "build" =>
        /\ \A u \in Cells : \A v \in Cells :
               InSeq(AdjGet(adj_list, u), v) <=> Step(u, v)
        /\ DOMAIN adj_list \subseteq Cells
        /\ \A u \in DOMAIN adj_list :
               /\ \A i \in 1 .. Len(adj_list[u]) : adj_list[u][i] \in Cells
               /\ \A i \in 1 .. Len(adj_list[u]) :
                      /\ adj_list[u][i] # u
                      /\ InSeq(AdjGet(adj_list, adj_list[u][i]), u)
               /\ NoDuplicates(adj_list[u])
               /\ Len(adj_list[u]) <= 4

\* a build has run on a layer with a blocked cell, and some cell got all four
\* neighbours or the blocked cell has a walkable neighbour cell
C4_Witness ==
    /\ last.op = "build"
    /\ \E u \in Cells : ~Open(u) /\ \E v \in Cells : Adjacent(u, v) /\ Open(v)
    /\ \E u \in DOMAIN adj_list : Len(adj_list[u]) >= 3

\* C5 (as claimed): after a build with a tile layer the stored weight of every
\* directed edge (u, v) is the traversal weight of v's tile kind.
C5_WeightIsDestinationWeight ==
    last.op = "build" =>
        \A u \in DOMAIN adj_list : \A i \in 1 .. Len(adj_list[u]) :
            weights[<<u, adj_list[u][i]>>] = TilePropWeight(tile_map[adj_list[u][i]])

\* C10: a build that follows a build on the same grid map and tile layer
\* leaves the keys, the adjacency lists and the weights as the first build
\* left them, with no neighbour entered a second time.
C10_BuildIdempotent ==
    [][(last.op = "build" /\ last'.op = "build") =>
          /\ SameFcn(adj_list', adj_list)
          /\ SameFcn(weights', weights)
          /\ \A u \in DOMAIN adj_list' : NoDuplicates(adj_list'[u])]_vars

\* the graph has been built twice in a row and has edges
C10_Witness ==
    /\ builds = 2
    /\ last.op = "build"
    /\ \E u \in DOMAIN adj_list : Len(adj_list[u]) >= 2

----------------------------------------------------------------------------
(* Properties of the path searches *)

Connected(start, goal) == goal \in Component(start)

\* C1: on a graph freshly built from a layer without Construction tile, for
\* every connected (start, goal) find_path_bfs returns a path from start to
\* goal, made of orthogonal steps between walkable cells, whose number of
\* cells is the least possible.
C1_BfsShortestPath ==
    (last.op = "bfs" /\ NoConstructionTile /\ Connected(last.start, last.goal)) =>
        /\ last.path # <<>>
        /\ last.path[1] = last.start
        /\ last.path[Len(last.path)] = last.goal
        /\ IsWalk(last.path)
        /\ Len(last.path) = HopDist(last.start, last.goal) + 1

\* find_path_bfs has returned a path that had to go round blocked cells
C1_Witness ==
    /\ last.op = "bfs"
    /\ NoConstructionTile
    /\ Connected(last.start, last.goal)
    /\ Len(last.path) > heuristic(last.start, last.goal) + 1

C9_BfsStartIsGoal ==
    (last.op = "bfs" /\ last.start = last.goal) =>
        /\ last.path = <<last.start>>
        /\ last.nodes_explored = 1
        /\ algorithm_stats.BFS = 1

\* find_path_bfs(start, start) has run from a cell that has neighbours
C9_Witness ==
    /\ last.op = "bfs"
    /\ last.start = last.goal
    /\ Len(AdjGet(adj_list, last.start)) >= 2

\* C7 (as claimed): when the goal is not connected to start, find_path_astar
\* returns the empty path and counts as explored exactly the cells of the
\* connected component of start.
C7_AstarUnreachable ==
    (last.op = "astar" /\ ~Connected(last.start, last.goal)) =>
        /\ last.path = <<>>
        /\ last.nodes_explored = Cardinality(Component(last.start))

UnitWeightLayer == \A c \in Cells : tile_map[c] \in {"NORMAL", "WALL", "LOCKED_GATE"}

\* C8: on a graph built from a layer whose walkable tiles all weigh 1, without
\* Construction tile, find_path_astar returns for every connected
\* (start, goal) a path of as many cells as the path of find_path_bfs.
C8_AstarAsShortAsBfs ==
    (last.op = "astar" /\ UnitWeightLayer /\ Connected(last.start, last.goal)) =>
        /\ last.path # <<>>
        /\ Len(last.path) =
               Len(find_path_bfs(adj_list, tile_map, last.start, last.goal).path)

\* find_path_astar has returned a path that had to go round blocked cells
C8_Witness ==
    /\ last.op = "astar"
    /\ UnitWeightLayer
    /\ Connected(last.start, last.goal)
    /\ Len(last.path) > heuristic(last.start, last.goal) + 1

\* every two consecutive cells of the path are joined by the adjacency lists
\* and lie side by side
IsGraphWalk(path) ==
    \A i \in 1 .. Len(path) - 1 :
        /\ InSeq(AdjGet(adj_list, path[i]), path[i + 1])
        /\ Adjacent(path[i], path[i + 1])

\* C22: every non-empty path returned by find_path_bfs or find_path_astar
\* starts with start, ends with goal, goes along edges of the navigation
\* graph (hence between orthogonally adjacent cells) and holds no cell twice.
C22_PathWellFormed ==
    (last.op \in {"bfs", "astar"} /\ last.path # <<>>) =>
        /\ last.path[1] = last.start
        /\ last.path[Len(last.path)] = last.goal
        /\ IsGraphWalk(last.path)
        /\ NoDuplicates(last.path)

\* find_path_astar has returned a path of four cells or more that had to go
\* round a blocked cell and crosses a tile that is not NORMAL
C22_Witness ==
    /\ last.op = "astar"
    /\ Len(last.path) >= 4
    /\ Len(last.path) > heuristic(last.start, last.goal) + 1
    /\ \E i \in 1 .. Len(last.path) : tile_map[last.path[i]] \in {"GRASS", "WATER", "ICE"}

\* C23 (as claimed): find_path_bfs and find_path_astar leave the navigation
\* graph (its vertices, that is the keys of adj_list, its adjacency lists and
\* its weights), the tile layer and the grid map as they were, for every
\* start and goal, a start that is not a vertex of the graph included.
C23_SearchLeavesGraphAlone ==
    [][last'.op \in {"bfs", "astar"} =>
           /\ DOMAIN adj_list' = DOMAIN adj_list
           /\ SameFcn(adj_list', adj_list)
           /\ SameFcn(weights', weights)
           /\ grid' = grid
           /\ tile_map' = tile_map]_vars

\* total stored weight of the edges of a path
RECURSIVE PathWeight(_, _)
PathWeight(path, i) ==
    IF i >= Len(path) THEN 0
    ELSE weights[<<path[i], path[i + 1]>>] + PathWeight(path, i + 1)

RECURSIVE Cheaper(_, _)
\* the pairs <<cell, total weight>> of the walks of the navigation graph
\* that start as the pairs of S do and weigh less than bound
Cheaper(S, bound) ==
    LET N == UNION { { <<adj_list[p[1]][i],
                         p[2] + weights[<<p[1], adj_list[p[1]][i]>>]>> :
                           i \in 1 .. Len(adj_list[p[1]]) } :
                     p \in {q \in S : q[1] \in DOMAIN adj_list} }
        U == S \cup {q \in N : q[2] < bound}
    IN  IF U = S THEN S ELSE Cheaper(U, bound)

\* some path of the navigation graph from start to goal weighs less than bound
LighterPathExists(start, goal, bound) ==
    \E p \in Cheaper({<<start, 0>>}, bound) : p[1] = goal /\ p[2] < bound

HeavyLayer == \A c \in Cells : tile_map[c] \in {"NORMAL", "WALL", "GRASS", "WATER"}

\* C2 (as claimed): on a graph whose walkable tiles all weigh 1 or more,
\* find_path_astar returns for every connected (start, goal) a path of least
\* total traversal weight.
C2_AstarLeastWeight ==
    (last.op = "astar" /\ HeavyLayer /\ Connected(last.start, last.goal)) =>
        /\ last.path # <<>>
        /\ ~LighterPathExists(last.start, last.goal, PathWeight(last.path, 1))

----------------------------------------------------------------------------
(* A playing session: construction events and the B key *)

\* seconds between two updates
TickSeconds == 15

construction_duration == 45

\* the layouts the session may be reset on: setup_special_tiles places no
\* tile, so the layer holds NORMAL and WALL only
SessionLayouts ==
    {tm \in Layouts : /\ \A c \in Cells : tm[c] \in {"NORMAL", "WALL"}
                      /\ Cardinality({c \in Cells : tm[c] = "WALL"}) <= MaxSessionWalls}

\* the cell reset_game puts the player at
StartCell == <<0, 0>>

\* the seconds to the first construction
first_spawn_timer == 15

\* what reset_game sets, on the static layout tm and with the building tgt of
\* the first task: the map, the graph built from it, the new handler, the
\* empty construction list, and the search for the expected path of the task
reset_game(tm, tgt) ==
    LET g == GridOf(tm)
        G == build_from_rvce_grid(NewGraph, g, tm)
        r == find_path_bfs(G.adj, tm, StartCell, tgt)
    IN  [grid |-> g, tile_map |-> tm, adj_list |-> r.adj, weights |-> G.w,
         player_pos |-> StartCell, target |-> tgt,
         construction_sites |-> <<>>,
         construction_spawn_timer |-> first_spawn_timer,
         current_path |-> <<>>,
         algorithm_stats |-> [BFS |-> r.nodes_explored, Astar |-> 0],
         handler |-> NewHandler]

\* the buildings a task may send the player to
TaskCells(tm) == {c \in Cells : tm[c] = "NORMAL"}

\* the first reset_game of the program, after __init__
Init ==
    /\ \E tm \in SessionLayouts : \E tgt \in TaskCells(tm) :
           \E f \in {reset_game(tm, tgt)} :
               /\ grid = f.grid
               /\ tile_map = f.tile_map
               /\ adj_list = f.adj_list
               /\ weights = f.weights
               /\ player_pos = f.player_pos
               /\ target = f.target
               /\ construction_sites = f.construction_sites
               /\ construction_spawn_timer = f.construction_spawn_timer
               /\ current_path = f.current_path
               /\ algorithm_stats = f.algorithm_stats
               /\ handler = f.handler
    /\ builds = 1
    /\ last = NoCall
    /\ npc = NoNpc
    /\ active_events = <<>>
    /\ IdlePlay
    /\ used_pathfinding = FALSE

\* the cells _spawn_construction_site may block
Spawnable ==
    {c \in Cells : /\ grid[c] = 0
                   /\ tile_map[c] = "NORMAL"
                   /\ c # target
                   /\ ~InSeq(buildings, c)
                   /\ c # player_pos}

RECURSIVE SpawnPositions(_, _, _, _)
\* the loop that adds to positions the neighbours of the centre drawn by
\* random.random() > 0.5 (the directions of the set drawn)
SpawnPositions(positions, center, drawn, d) ==
    IF d > Len(Dirs) THEN positions
    ELSE LET n == <<center[1] + Dirs[d][1], center[2] + Dirs[d][2]>>
         IN  IF d \in drawn /\ n \in Spawnable /\ ~InSeq(positions, n)
             THEN IF Len(positions) + 1 >= 4
                  THEN Append(positions, n)
                  ELSE SpawnPositions(Append(positions, n), center, drawn, d + 1)
             ELSE SpawnPositions(positions, center, drawn, d + 1)

SeqRange(q) == {q[i] : i \in 1 .. Len(q)}

\* the timers of the sites after dt seconds, the expired sites dropped
RECURSIVE StillActive(_, _)
StillActive(sites, dt) ==
    IF sites = <<>> THEN <<>>
    ELSE LET site == Head(sites)
         IN  IF site[3] - dt > 0
             THEN <<<<site[1], site[2], site[3] - dt>>>> \o StillActive(Tail(sites), dt)
             ELSE StillActive(Tail(sites), dt)

\* an expiry that clears a cell only when its timer has gone below zero
ExpiredBelowZero(sites, dt) ==
    {<<sites[i][1], sites[i][2]>> : i \in {j \in 1 .. Len(sites) : sites[j][3] - dt < 0}}

\* the cells of the sites whose timer has run out: tile and grid are cleared
Expired(sites, dt) ==
    {<<sites[i][1], sites[i][2]>> : i \in {j \in 1 .. Len(sites) : sites[j][3] - dt <= 0}}

\* what _update_construction_events does to the timers, the sites and the
\* map once the sites to add (positions, empty when nothing is spawned) are known
ConstructionStep(positions, timer1) ==
    LET dt == TickSeconds
        spawned == SeqRange(positions)
        sites1 == construction_sites \o
                      [i \in 1 .. Len(positions) |->
                          <<positions[i][1], positions[i][2], construction_duration>>]
        gone == Expired(sites1, dt)
    IN  /\ Len(StillActive(sites1, dt)) <= MaxSites
        /\ construction_spawn_timer' = timer1
        /\ construction_sites' = StillActive(sites1, dt)
        /\ tile_map' = [c \in Cells |->
                           IF c \in gone THEN "NORMAL"
                           ELSE IF c \in spawned THEN "CONSTRUCTION"
                           ELSE tile_map[c]]
        /\ grid' = [c \in Cells |->
                       IF c \in gone THEN 0
                       ELSE IF c \in spawned THEN 1
                       ELSE grid[c]]
        /\ last' = [NoCall EXCEPT !.op = "update"]
        /\ UNCHANGED <<graphVars, builds, player_pos, target, algorithm_stats,
                       actorVars, playVars>>

\* RVCECampusRunner._update_construction_events(dt), with
\* _spawn_construction_site when the spawn timer has run out: the centre is
\* drawn from centers, the neighbours from draws and the seconds to the next
\* spawn from intervals
ConstructionEventsAt(centers, draws, intervals) ==
    LET timer == construction_spawn_timer - TickSeconds
        walkable == Spawnable \cap centers
    IN  \/ /\ timer > 0
           /\ ConstructionStep(<<>>, timer)
           /\ UNCHANGED current_path
        \/ /\ timer <= 0
           /\ \E center \in (IF walkable = {} THEN {<<0, 0>>} ELSE walkable),
                 drawn \in draws,
                 interval \in intervals :
                  IF walkable = {}
                  THEN /\ ConstructionStep(<<>>, interval)
                       /\ UNCHANGED current_path
                  ELSE /\ ConstructionStep(SpawnPositions(<<center>>, center, drawn, 1),
                                           interval)
                       /\ current_path' = <<>>

\* the update with every draw _spawn_construction_site can make
UpdateConstructionEvents ==
    ConstructionEventsAt(Cells, SUBSET (1 .. Len(Dirs)), {30, 60})

\* the B key of handle_input: find_path_bfs from the player to the building
\* of the current task
KeyB ==
    LET r == find_path_bfs(adj_list, tile_map, player_pos, target)
    IN  /\ current_path' = r.path
        /\ algorithm_stats' = [algorithm_stats EXCEPT !.BFS = r.nodes_explored]
        /\ adj_list' = r.adj
        /\ last' = [op |-> "key_b", start |-> player_pos, goal |-> target,
                    path |-> r.path, nodes_explored |-> r.nodes_explored]
        /\ used_pathfinding' = TRUE
        /\ UNCHANGED <<mapVars, weights, builds, player_pos, target,
                       construction_sites, construction_spawn_timer, handler, npc,
                       active_events, playVars>>

\* the layout setup_rvce_campus makes, the same in every session
StaticLayout == [c \in Cells |-> IF tile_map[c] = "WALL" THEN "WALL" ELSE "NORMAL"]

\* reset_game called again (the R key, or a new game from the menu)
ResetGame ==
    /\ last.op # "reset_game"
    /\ \E tgt \in TaskCells(StaticLayout) :
           \E f \in {reset_game(StaticLayout, tgt)} :
               /\ grid' = f.grid
               /\ tile_map' = f.tile_map
               /\ adj_list' = f.adj_list
               /\ weights' = f.weights
               /\ player_pos' = f.player_pos
               /\ target' = f.target
               /\ construction_sites' = f.construction_sites
               /\ construction_spawn_timer' = f.construction_spawn_timer
               /\ current_path' = f.current_path
               /\ algorithm_stats' = f.algorithm_stats
               /\ handler' = f.handler
    /\ last' = [op |-> "reset_game"]
    /\ UNCHANGED <<builds, npc, used_pathfinding,
                   active_events, playVars>>

Next == UpdateConstructionEvents \/ KeyB \/ ResetGame

Spec == Init /\ [][Next]_vars

\* the adjacency lists and weights a build on the current grid map and tile
\* layer gives
FreshGraph == build_from_rvce_grid(NewGraph, grid, tile_map)

NavGraphFresh ==
    /\ \A c \in Cells : AdjGet(adj_list, c) = AdjGet(FreshGraph.adj, c)
    /\ SameFcn(weights, FreshGraph.w)

\* the entries construction_sites holds for the cell c
SitesAt(sites, c) == {i \in DOMAIN sites : <<sites[i][1], sites[i][2]>> = c}

\* C37: in a playing session the tile of a cell is CONSTRUCTION if and only
\* if construction_sites holds exactly one entry for the cell; an entry
\* carries the seconds left of the 45 it is given, counted down by every
\* update from the one that spawns it on; an update keeps the entries that
\* have seconds left and removes the others, setting their cells to NORMAL
\* and opening them in the grid map.
C37_SitesMatchTiles ==
    /\ [](\A c \in Cells :
              tile_map[c] = "CONSTRUCTION" <=>
                  Cardinality(SitesAt(construction_sites, c)) = 1)
    /\ [](\A i \in DOMAIN construction_sites :
              /\ construction_sites[i][3] \in 1 .. construction_duration
              /\ grid[<<construction_sites[i][1], construction_sites[i][2]>>] = 1)
    /\ [][last'.op = "update" =>
              \A i \in DOMAIN construction_sites :
                  LET site == construction_sites[i]
                      c == <<site[1], site[2]>>
                  IN  IF site[3] - TickSeconds > 0
                      THEN InSeq(construction_sites',
                                 <<site[1], site[2], site[3] - TickSeconds>>)
                      ELSE /\ SitesAt(construction_sites', c) = {}
                           /\ tile_map'[c] = "NORMAL"
                           /\ grid'[c] = 0]_vars

\* a site has been spawned and has run out: the spawn timer, set to 60 s at
\* the spawn, has been counted down twice or more, and no site is left
C37_Witness ==
    /\ last.op = "update"
    /\ construction_sites = <<>>
    /\ construction_spawn_timer \in 1 .. 60 - 2 * TickSeconds
    /\ \A c \in Cells : tile_map[c] # "CONSTRUCTION" /\ grid[c] = 0 <=> tile_map[c] = "NORMAL"

\* C3 (as claimed): whenever a path search runs in a playing session, the
\* navigation graph is the graph build_from_rvce_grid gives for the current
\* grid map and tile layer.
C3_GraphFreshAtSearch == last.op = "key_b" => NavGraphFresh

RECURSIVE AvoidClosure(_)
\* the cells joined to the cells of S by adjacency lists through cells whose
\* tile is not CONSTRUCTION
AvoidClosure(S) ==
    LET T == S \cup {v \in Cells : /\ tile_map[v] # "CONSTRUCTION"
                                   /\ \E u \in S : InSeq(AdjGet(adj_list, u), v)}
    IN  IF T = S THEN S ELSE AvoidClosure(T)

\* some cell of the path has, in its adjacency list, a CONSTRUCTION cell
StaleEdgeOnPath(path) ==
    \E i \in 1 .. Len(path) : \E j \in 1 .. Len(AdjGet(adj_list, path[i])) :
        tile_map[adj_list[path[i]][j]] = "CONSTRUCTION"

\* C21: a path returned by find_path_bfs holds, after its first cell, no cell
\* whose tile is CONSTRUCTION, also when the navigation graph still has the
\* edges of the cells a construction has blocked since the build; when every
\* way to the goal leads through a CONSTRUCTION cell the path is empty.
C21_BfsAvoidsConstruction ==
    last.op = "key_b" =>
        /\ \A i \in 2 .. Len(last.path) : tile_map[last.path[i]] # "CONSTRUCTION"
        /\ last.goal \notin AvoidClosure({last.start}) => last.path = <<>>

\* the B key has found a way round a construction whose cell the navigation
\* graph still joins to a cell of the path
C21_Witness ==
    /\ last.op = "key_b"
    /\ Len(last.path) > heuristic(last.start, last.goal) + 1
    /\ StaleEdgeOnPath(last.path)
    /\ ~NavGraphFresh

----------------------------------------------------------------------------
(* The tile-effect handler of one session, driven through its methods *)

\* the cells process_tile and set_portals are called at
TileSpots == {<<0, 0>>, <<Width - 1, Height - 1>>}

\* the seconds update may be handed
EffectTicks == {1, 2}

\* the layers the handler is driven on: one wall, in the second row
SlideLayouts == {[c \in Cells |-> IF c = <<1, 1>> THEN "WALL" ELSE "NORMAL"]}

\* reset_game has made a new TileEffectHandler
InitTile ==
    /\ tile_map \in SlideLayouts
    /\ grid = GridOf(tile_map)
    /\ LET G == build_from_rvce_grid(NewGraph, GridOf(tile_map), tile_map)
       IN  /\ adj_list = G.adj
           /\ weights = G.w
    /\ builds = 1
    /\ last = NoCall
    /\ IdleSession
    /\ handler = NewHandler
    /\ npc = NoNpc
    /\ active_events = <<>>
    /\ IdlePlay

\* tile_effect_handler.set_portals(pos_a, pos_b)
SetPortals ==
    /\ \/ \E pos_a \in TileSpots, pos_b \in TileSpots :
              handler' = set_portals(handler, pos_a, pos_b)
       \/ \E pos_a \in TileSpots : handler' = set_portals(handler, pos_a, None)
    /\ last' = [op |-> "set_portals"]
    /\ UNCHANGED <<mapVars, graphVars, builds, sessionVars, npc, used_pathfinding,
                   active_events, playVars>>

\* tile_effect_handler.process_tile(player_pos, tile_type, direction, game_map);
\* the direction is read by the ICE branch alone
ProcessTile ==
    /\ \E pos \in TileSpots, tile_type \in TileType :
       \E d \in (IF tile_type = "ICE" THEN 1 .. Len(Dirs) ELSE {1}) :
           LET r == process_tile(handler, pos, tile_type, Dirs[d], grid)
           IN  /\ handler' = r.handler
               /\ grid' = r.grid
               /\ last' = [op |-> "process_tile", pos |-> pos, tile_type |-> tile_type,
                           direction |-> Dirs[d],
                           new_pos |-> r.new_pos, time_penalty |-> r.time_penalty,
                           message |-> r.message]
    /\ UNCHANGED <<tile_map, graphVars, builds, sessionVars, npc, used_pathfinding,
                   active_events, playVars>>

\* tile_effect_handler.process_slide(player_pos, game_map, tile_map)
ProcessSlide ==
    /\ \E pos \in Cells :
           LET r == process_slide(handler, pos, grid, tile_map)
           IN  /\ handler' = r.handler
               /\ grid' = r.grid
               /\ tile_map' = r.tile_map
               /\ last' = [op |-> "process_slide", pos |-> pos, new_pos |-> r.pos]
    /\ UNCHANGED <<graphVars, builds, sessionVars, npc, used_pathfinding,
                   active_events, playVars>>

\* tile_effect_handler.update(dt)
HandlerUpdate ==
    /\ \E dt \in EffectTicks : handler' = handler_update(handler, dt)
    /\ last' = [op |-> "handler_update"]
    /\ UNCHANGED <<mapVars, graphVars, builds, sessionVars, npc, used_pathfinding,
                   active_events, playVars>>

NextTile == SetPortals \/ ProcessTile \/ ProcessSlide \/ HandlerUpdate

SpecTile == InitTile /\ [][NextTile]_vars

\* C11: process_tile on a TRAP tile at cell c returns the time penalty when c
\* has not been triggered in this session and penalty 0 when it has, and
\* records c; no call of the handler takes a cell out of the triggered traps.
C11_TrapOnce ==
    [][/\ handler.triggered_traps \subseteq handler'.triggered_traps
       /\ (last'.op = "process_tile" /\ last'.tile_type = "TRAP") =>
              /\ last'.pos \in handler'.triggered_traps
              /\ last'.pos \notin handler.triggered_traps =>
                     last'.time_penalty = TrapPenalty /\ TrapPenalty > 0
              /\ last'.pos \in handler.triggered_traps =>
                     last'.time_penalty = 0]_vars

\* a trap cell has been stepped on a second time, after slides and updates
\* had run, and gave no penalty
C11_Witness ==
    /\ last.op = "process_tile"
    /\ last.tile_type = "TRAP"
    /\ last.time_penalty = 0
    /\ Cardinality(handler.triggered_traps) >= 2
    /\ handler.slide_direction # None
    /\ handler.booster_timer < BoosterSeconds /\ handler.booster_timer # 0

\* C12: with both portals set, process_tile at Portal A on a PORTAL_A tile
\* returns the position of Portal B and process_tile at Portal B on a
\* PORTAL_B tile returns the position of Portal A; on a portal tile whose
\* counterpart is unset it returns the input position, penalty 0 and no message.
C12_PortalRoundTrip ==
    (last.op = "process_tile" /\ last.tile_type \in {"PORTAL_A", "PORTAL_B"}) =>
        LET counterpart == IF last.tile_type = "PORTAL_A" THEN handler.portal_b_pos
                           ELSE handler.portal_a_pos
        IN  /\ counterpart # None =>
                   /\ last.new_pos = counterpart
                   /\ last.time_penalty = 0
            /\ counterpart = None =>
                   /\ last.new_pos = last.pos
                   /\ last.time_penalty = 0
                   /\ last.message = "None"

\* the player has stepped on Portal A, set at another cell than Portal B, and
\* has been sent to Portal B at cell (0, 0)
C12_Witness ==
    /\ last.op = "process_tile"
    /\ last.tile_type = "PORTAL_A"
    /\ last.pos = handler.portal_a_pos
    /\ handler.portal_b_pos = <<0, 0>>
    /\ handler.portal_a_pos # handler.portal_b_pos
    /\ last.new_pos = <<0, 0>>

\* C17: process_tile, process_slide and update change neither the tile layer
\* nor the grid map nor the navigation graph.
C17_HandlerLeavesMapAlone ==
    [][last'.op \in {"process_tile", "process_slide", "handler_update"} =>
           /\ grid' = grid
           /\ tile_map' = tile_map
           /\ SameFcn(adj_list', adj_list)
           /\ SameFcn(weights', weights)]_vars

\* a slide has moved the player across a layer with a wall, the key being
\* held and a trap triggered
C17_Witness ==
    /\ last.op = "process_slide"
    /\ last.new_pos # last.pos
    /\ \E c \in Cells : grid[c] = 1
    /\ handler.has_key
    /\ handler.triggered_traps # {}

\* C30: process_tile on an ICE tile returns the input position and starts a
\* slide of exactly 2 steps in the direction given; a process_slide call
\* that moves the player moves it one cell in that direction and uses up one
\* step, so at most 2 cells in all; with no step left process_slide returns
\* the position it was given, and only process_tile on an ICE tile gives the
\* slide steps or a direction again.
C30_IceSlide ==
    /\ [](handler.slide_remaining \in 0 .. 2)
    /\ [][/\ (last'.op = "process_tile" /\ last'.tile_type = "ICE") =>
              /\ last'.new_pos = last'.pos
              /\ handler'.slide_remaining = 2
              /\ handler'.slide_direction = last'.direction
          /\ (last'.op = "process_slide" /\ last'.new_pos # last'.pos) =>
              /\ handler.slide_direction # None
              /\ last'.new_pos = <<last'.pos[1] + handler.slide_direction[1],
                                   last'.pos[2] + handler.slide_direction[2]>>
              /\ handler'.slide_direction = handler.slide_direction
              /\ handler'.slide_remaining = handler.slide_remaining - 1
          /\ (last'.op = "process_slide" /\ handler.slide_remaining = 0) =>
              /\ last'.new_pos = last'.pos
              /\ handler'.slide_remaining = 0
          /\ (\/ handler'.slide_remaining > handler.slide_remaining
              \/ (/\ handler'.slide_direction # handler.slide_direction
                  /\ handler'.slide_direction # None)) =>
              (last'.op = "process_tile" /\ last'.tile_type = "ICE")]_vars

\* a slide started on ice has moved the player twice, has no step left, and a
\* further process_slide has returned the position it was given
C30_Witness ==
    /\ last.op = "process_slide"
    /\ last.new_pos = last.pos
    /\ handler.slide_remaining = 0
    /\ handler.slide_direction # None

\* a layer with a locked gate laid over an open cell of the grid map, next
\* to the corner process_tile is called at, and one wall
GateSlideLayouts ==
    {[c \in Cells |-> IF c = <<1, 0>> THEN "LOCKED_GATE"
                      ELSE IF c = <<1, 1>> THEN "WALL" ELSE "NORMAL"]}

\* a new TileEffectHandler on such a layer
InitSlide ==
    /\ tile_map \in GateSlideLayouts
    /\ grid = GridOf(tile_map)
    /\ LET G == build_from_rvce_grid(NewGraph, GridOf(tile_map), tile_map)
       IN  /\ adj_list = G.adj
           /\ weights = G.w
    /\ builds = 1
    /\ last = NoCall
    /\ IdleSession
    /\ handler = NewHandler
    /\ npc = NoNpc
    /\ active_events = <<>>
    /\ IdlePlay

NextSlide == ProcessTile \/ ProcessSlide

SpecSlide == InitSlide /\ [][NextSlide]_vars

\* the cell next to pos in the slide direction of handler h is one the
\* player may stand on, under grid map, tile layer and the key of h
SlideAhead(h, pos) ==
    is_walkable(grid, pos[1] + h.slide_direction[1], pos[2] + h.slide_direction[2],
                tile_map, h.has_key)

\* C31 (as claimed): process_slide moves the player only onto a cell inside
\* the grid that is walkable under the grid map and the tile layer (no WALL,
\* no CONSTRUCTION, a LOCKED_GATE only with the key); when the next cell in
\* the slide direction is not such a cell it ends the slide (no step left,
\* no direction) and returns the position it was given.
C31_SlideStopsAtObstacle ==
    [][last'.op = "process_slide" =>
           /\ last'.new_pos # last'.pos =>
                  is_walkable(grid, last'.new_pos[1], last'.new_pos[2], tile_map,
                              handler.has_key)
           /\ (/\ handler.slide_remaining > 0
               /\ handler.slide_direction # None
               /\ ~SlideAhead(handler, last'.pos)) =>
                  /\ handler'.slide_remaining = 0
                  /\ handler'.slide_direction = None
                  /\ last'.new_pos = last'.pos]_vars

----------------------------------------------------------------------------
(* One NPC of the NPCManager: the state machine of NPC.update.  Times are in *)
(* tenths of a second; the animation frame counter is left out.              *)

\* NPC.move_delay, 0.3 s
move_delay == 3

\* the dwell of an NPC without patrol route in IDLE, 3 s
idle_dwell == 30

\* the hold of INTERACT, 2 s
interact_hold == 20

\* the detection range reset_game gives every NPC (npc_hint_range)
npc_hint_range == 5

\* NPC.__init__: detection_range
InitialRange(npc_type) == IF npc_type = "SECURITY" THEN 4 ELSE 3

\* move_delay / chase_speed: 0.3 / 1.5 for a guard, 0.3 / 1.0 otherwise
ChaseDelay(npc_type) == IF npc_type = "SECURITY" THEN 2 ELSE 3

\* NPC.__init__
NewNpc(npc_type, start_pos, patrol_points) ==
    [npc_type |-> npc_type, pos |-> start_pos, start_pos |-> start_pos,
     current_path |-> <<>>, path_index |-> 0,
     patrol_points |-> IF patrol_points = <<>> THEN <<start_pos>> ELSE patrol_points,
     patrol_index |-> 0,
     state |-> IF patrol_points = <<>> THEN "IDLE" ELSE "PATROL",
     state_timer |-> 0,
     detection_range |-> InitialRange(npc_type),
     has_interacted |-> FALSE,
     move_timer |-> 0]

\* dx * dx + dy * dy, the square of the distance NPC.update computes
Dist2(a, b) == (a[1] - b[1]) * (a[1] - b[1]) + (a[2] - b[2]) * (a[2] - b[2])

\* the step onto next_pos shared by the three moves: taken when the grid map
\* has the cell walkable
StepTo(n, next_pos, g) ==
    IF is_walkable(g, next_pos[1], next_pos[2], NoTileMap, FALSE)
    THEN [n EXCEPT !.pos = next_pos]
    ELSE n

\* a test that asks for a search only when there is a path to another cell
path_stale_only(path, patrol_target) ==
    path # <<>> /\ path[Len(path)] # patrol_target

\* not self.current_path or self.current_path[-1] != target
path_stale(path, patrol_target) ==
    path = <<>> \/ path[Len(path)] # patrol_target

\* NPC._patrol_move; the NPC and adj_list as the call leaves them
patrol_move(n, g, adj, tm) ==
    LET len == Len(n.patrol_points)
        at == n.pos = n.patrol_points[n.patrol_index + 1]
        index == IF at THEN (n.patrol_index + 1) % len ELSE n.patrol_index
        patrol_target == n.patrol_points[index + 1]
        search == path_stale(n.current_path, patrol_target)
        r == find_path_bfs(adj, tm, n.pos, patrol_target)
        n1 == IF search
              THEN [n EXCEPT !.patrol_index = index, !.current_path = r.path,
                             !.path_index = 0]
              ELSE [n EXCEPT !.patrol_index = index]
        adj1 == IF search THEN r.adj ELSE adj
    IN  IF n1.current_path # <<>> /\ n1.path_index < Len(n1.current_path)
        THEN LET next_pos == n1.current_path[n1.path_index + 1]
             IN  [npc |-> IF is_walkable(g, next_pos[1], next_pos[2], NoTileMap, FALSE)
                          THEN [StepTo(n1, next_pos, g) EXCEPT !.path_index = @ + 1]
                          ELSE n1,
                  adj |-> adj1]
        ELSE [npc |-> n1, adj |-> adj1]

\* the move towards goal of _chase_move and _return_move
move_towards(n, goal, g, adj, tm) ==
    LET r == find_path_bfs(adj, tm, n.pos, goal)
        n1 == [n EXCEPT !.current_path = r.path]
    IN  IF Len(r.path) > 1
        THEN [npc |-> StepTo(n1, r.path[2], g), adj |-> r.adj]
        ELSE [npc |-> n1, adj |-> r.adj]

\* NPC._chase_move
chase_move(n, player, g, adj, tm) == move_towards(n, player, g, adj, tm)

\* a return that heads for the first patrol point
return_move_patrol(n, g, adj, tm) ==
    IF n.pos = n.start_pos THEN [npc |-> n, adj |-> adj]
    ELSE move_towards(n, n.patrol_points[1], g, adj, tm)

\* NPC._return_move
return_move(n, g, adj, tm) ==
    IF n.pos = n.start_pos THEN [npc |-> n, adj |-> adj]
    ELSE move_towards(n, n.start_pos, g, adj, tm)

\* a test that has every kind of NPC chase the player
detects_anyone(n, player) ==
    Dist2(n.pos, player) < n.detection_range * n.detection_range

\* the test of the PATROL branch: distance < detection_range
detects(n, player) ==
    /\ n.npc_type = "SECURITY"
    /\ Dist2(n.pos, player) < n.detection_range * n.detection_range

\* a test that lets a chase go on to three times the detection range
escaped_late(n, player) ==
    Dist2(n.pos, player) > 9 * n.detection_range * n.detection_range

\* the test of the CHASE branch: distance > detection_range * 2
escaped(n, player) ==
    Dist2(n.pos, player) > 4 * n.detection_range * n.detection_range

\* a test that lets a move be made in every update
move_always(n) == TRUE

\* the test of the PATROL and RETURN branches: move_timer >= move_delay
move_due(n) == n.move_timer >= move_delay

\* a test that is met on the cell of the player only: distance < 1
caught_touch(n, player) == Dist2(n.pos, player) < 1

\* the second test of the CHASE branch: distance < 1.5
caught(n, player) == 4 * Dist2(n.pos, player) < 9

\* NPC.update(dt, player_pos, game_map, find_path_func) with find_path_bfs
npc_update(n, dt, player, g, adj, tm) ==
    LET n0 == [n EXCEPT !.state_timer = @ + dt, !.move_timer = @ + dt]
        to(st) == [npc |-> [n0 EXCEPT !.state = st, !.state_timer = 0], adj |-> adj]
        moved(r) == [npc |-> [r.npc EXCEPT !.move_timer = 0], adj |-> r.adj]
        stay == [npc |-> n0, adj |-> adj]
    IN  CASE n0.state = "IDLE" ->
                 IF n0.state_timer > idle_dwell THEN to("PATROL") ELSE stay
          [] n0.state = "PATROL" ->
                 IF detects(n0, player) THEN to("CHASE")
                 ELSE IF move_due(n0)
                      THEN moved(patrol_move(n0, g, adj, tm))
                      ELSE stay
          [] n0.state = "CHASE" ->
                 IF escaped(n0, player) THEN to("RETURN")
                 ELSE IF caught(n0, player) THEN to("INTERACT")
                 ELSE IF n0.move_timer >= ChaseDelay(n0.npc_type)
                      THEN moved(chase_move(n0, player, g, adj, tm))
                      ELSE stay
          [] n0.state = "RETURN" ->
                 IF n0.pos = n0.start_pos THEN to("PATROL")
                 ELSE IF move_due(n0)
                      THEN moved(return_move(n0, g, adj, tm))
                      ELSE stay
          [] n0.state = "INTERACT" ->
                 IF n0.state_timer > interact_hold
                 THEN [npc |-> [n0 EXCEPT !.state = "PATROL", !.state_timer = 0,
                                          !.has_interacted = TRUE],
                       adj |-> adj]
                 ELSE stay

\* the positions the player may be at when an NPC is updated: the first row
\* of the map and the cells east of it
Reach == 11

PlayerSpots == {<<x, 0>> : x \in 0 .. Reach}

\* the tenths of a second update may be handed
NpcTicks == {2, 10}

\* the greatest values the two timers of an NPC are followed to: each lies
\* above every value update compares the timer with (idle_dwell and
\* interact_hold for state_timer, move_delay for move_timer), and a timer
\* beyond it is kept at that value
MaxTimer == 32

MaxMoveTimer == 4

Capped(t, max) == IF t > max THEN max ELSE t

\* the timers as they are followed: update reads state_timer in the IDLE and
\* INTERACT branches only and every change of state sets it to 0, so it is
\* followed in these two states and kept at 0 in the others
CapTimers(n) ==
    [n EXCEPT !.state_timer = IF n.state \in {"IDLE", "INTERACT"}
                              THEN Capped(@, MaxTimer)
                              ELSE 0,
              !.move_timer = Capped(@, MaxMoveTimer)]

\* the layer whose far corner is an open cell walled off from the others
IsleLayouts ==
    {[c \in Cells |-> IF c \in {<<Width - 1, Height - 2>>, <<Width - 2, Height - 1>>}
                      THEN "WALL" ELSE "NORMAL"]}

\* a student or a guard, made with a patrol route as spawn_npcs does or
\* without one, and reset_game may have given it the hint range
InitNpc ==
    /\ tile_map \in SlideLayouts \cup IsleLayouts
    /\ grid = GridOf(tile_map)
    /\ LET G == build_from_rvce_grid(NewGraph, GridOf(tile_map), tile_map)
       IN  /\ adj_list = G.adj
           /\ weights = G.w
    /\ builds = 1
    /\ last = NoCall
    /\ IdleSession
    /\ handler = NewHandler
    /\ active_events = <<>>
    /\ IdlePlay
    /\ \E npc_type \in {"STUDENT", "SECURITY"}, ranged \in BOOLEAN,
          routed \in BOOLEAN :
           LET n == NewNpc(npc_type, <<1, 0>>,
                           IF routed THEN << <<0, 0>>, <<Width - 1, Height - 1>> >>
                           ELSE <<>>)
           IN  npc = IF ranged THEN [n EXCEPT !.detection_range = npc_hint_range]
                     ELSE n

\* npc.update(dt, player_pos, game_map, find_path_bfs), the frame lasting one
\* of ticks and the player being at one of spots
NpcUpdateAt(ticks, spots) ==
    /\ \E dt \in ticks, player \in spots :
           \E r \in {npc_update(npc, dt, player, grid, adj_list, tile_map)} :
               /\ npc' = CapTimers(r.npc)
               /\ adj_list' = r.adj
               /\ last' = [op |-> "npc_update", player_pos |-> player, dt |-> dt]
    /\ UNCHANGED <<mapVars, weights, builds, sessionVars, handler, used_pathfinding,
                   active_events, playVars>>

NpcUpdate == NpcUpdateAt(NpcTicks, PlayerSpots)

NextNpc == NpcUpdate

SpecNpc == InitNpc /\ [][NextNpc]_vars

\* the player at a corner of the first row or far to the east of the map
LiveSpots == {<<0, 0>>, <<Width - 1, 0>>, <<Reach, 0>>}

NpcUpdateLive == NpcUpdateAt(NpcTicks, LiveSpots)

NextNpcLive == NpcUpdateLive

\* the game loop calls npc_manager.update in every frame: the update is
\* always enabled, so its weak fairness is that it is taken again and again
SpecNpcLive == InitNpc /\ [][NextNpcLive]_vars /\ []<><<NpcUpdateLive>>_vars

\* the player on the first waypoint of the route, beside it, on the last
\* waypoint, or far to the east of the map
RoamSpots == {<<0, 0>>, <<1, 0>>, <<Width - 1, Height - 1>>, <<Reach, 0>>}

NpcUpdateRoam == NpcUpdateAt(NpcTicks, RoamSpots)

NextNpcRoam == NpcUpdateRoam

\* the NPC with a player that walks the map off the first row as well
SpecNpcRoam == InitNpc /\ [][NextNpcRoam]_vars

\* C13 (as claimed): a guard in PATROL at the start of an update in which its
\* distance to the player is less than or equal to its detection_range is in
\* CHASE at the end of the update.
C13_GuardChasesWithinRange ==
    [][(/\ last'.op = "npc_update"
        /\ npc.npc_type = "SECURITY"
        /\ npc.state = "PATROL"
        /\ Dist2(npc.pos, last'.player_pos) <=
               npc.detection_range * npc.detection_range)
           => npc'.state = "CHASE"]_vars

\* C14: an NPC in CHASE at the start of an update in which its distance to
\* the player exceeds twice its detection_range is in RETURN at the end of the
\* update, at the cell it was at.
C14_ChaseGivesUp ==
    [][(/\ last'.op = "npc_update"
        /\ npc.state = "CHASE"
        /\ Dist2(npc.pos, last'.player_pos) >
               4 * npc.detection_range * npc.detection_range)
           => /\ npc'.state = "RETURN"
              /\ npc'.pos = npc.pos]_vars

\* a guard that had left its start cell has just given up a chase, the
\* player being further than twice the detection range
C14_Witness ==
    /\ last.op = "npc_update"
    /\ npc.state = "RETURN"
    /\ npc.state_timer = 0
    /\ npc.pos # npc.start_pos
    /\ Dist2(npc.pos, last.player_pos) > 4 * npc.detection_range * npc.detection_range

\* the changes of state NPC.update makes
FsmEdges ==
    {<<"IDLE", "PATROL">>, <<"PATROL", "CHASE">>, <<"CHASE", "RETURN">>,
     <<"CHASE", "INTERACT">>, <<"RETURN", "PATROL">>, <<"INTERACT", "PATROL">>}

\* C24: an NPC changes state only along IDLE -> PATROL (once the dwell time
\* is exceeded), PATROL -> CHASE, CHASE -> RETURN, CHASE -> INTERACT,
\* RETURN -> PATROL and INTERACT -> PATROL; no NPC enters IDLE, and an NPC
\* that is not a guard is never in CHASE, RETURN or INTERACT.
C24_FsmEdgesOnly ==
    /\ [](npc.npc_type # "SECURITY" => npc.state \in {"IDLE", "PATROL"})
    /\ [][/\ npc'.state # npc.state => <<npc.state, npc'.state>> \in FsmEdges
          /\ (npc.state = "IDLE" /\ npc'.state = "PATROL") =>
                 npc.state_timer + last'.dt > idle_dwell
          /\ (npc.state = "IDLE" /\ npc.state_timer + last'.dt <= idle_dwell) =>
                 npc'.state = "IDLE"
          /\ npc'.state = "IDLE" => npc.state = "IDLE"]_vars

\* C25: an NPC in CHASE whose distance to the player is below 1.5, and not
\* above twice its detection range, is in INTERACT after the update; in
\* INTERACT it does not move, it leaves INTERACT for PATROL only and only in
\* an update in which state_timer exceeds the hold of 2 s, and from that
\* update on has_interacted is true.
C25_InteractHolds ==
    [][/\ (/\ npc.state = "CHASE"
            /\ 4 * Dist2(npc.pos, last'.player_pos) < 9
            /\ Dist2(npc.pos, last'.player_pos) <=
                   4 * npc.detection_range * npc.detection_range)
               => npc'.state = "INTERACT" /\ npc'.pos = npc.pos
       /\ npc.state = "INTERACT" =>
               /\ npc'.pos = npc.pos
               /\ npc'.state \in {"INTERACT", "PATROL"}
               /\ npc'.state = "PATROL" =>
                      /\ npc.state_timer + last'.dt > interact_hold
                      /\ npc'.has_interacted
       /\ npc.has_interacted => npc'.has_interacted]_vars

\* a guard that has met the player before holds the player a second time,
\* away from its start cell, the hold being about to end
C25_Witness ==
    /\ npc.state = "INTERACT"
    /\ npc.has_interacted
    /\ npc.state_timer = interact_hold
    /\ npc.pos # npc.start_pos

\* what the update with the inputs of the last call would have made of NPC n
\* had the player been at cell q
UpdatedWith(n, q) ==
    CapTimers(npc_update(n, last'.dt, q, grid, adj_list, tile_map).npc)

\* C26: an NPC in RETURN changes state to PATROL only, and does so in the
\* update that finds it on its start position; away from it, in every update
\* in which move_timer reaches move_delay it steps to a neighbour cell one
\* step nearer to the start position, and in the other updates it stays;
\* the update gives the same NPC wherever the player is; and an NPC in RETURN
\* comes to stand on its start position in PATROL.
C26_ReturnArrives ==
    /\ [][npc.state = "RETURN" =>
              /\ npc'.state \in {"RETURN", "PATROL"}
              /\ npc.pos = npc.start_pos => npc'.state = "PATROL" /\ npc'.pos = npc.pos
              /\ npc.pos # npc.start_pos =>
                     /\ npc'.state = "RETURN"
                     /\ IF npc.move_timer + last'.dt >= move_delay
                        THEN /\ Adjacent(npc.pos, npc'.pos)
                             /\ HopDist(npc'.pos, npc.start_pos) =
                                    HopDist(npc.pos, npc.start_pos) - 1
                        ELSE npc'.pos = npc.pos
              /\ \A q \in LiveSpots : npc' = UpdatedWith(npc, q)]_vars
    /\ (npc.state = "RETURN") ~> (npc.state = "PATROL" /\ npc.pos = npc.start_pos)

\* a guard in RETURN has just stepped onto its start position
C26_Witness ==
    /\ npc.state = "RETURN"
    /\ npc.move_timer = 0
    /\ npc.pos = npc.start_pos
    /\ Len(npc.current_path) >= 2
    /\ npc.current_path[Len(npc.current_path)] = npc.start_pos

\* the cell the move of the last update was to lead to
MoveTarget ==
    CASE npc.state = "PATROL" -> npc'.patrol_points[npc'.patrol_index + 1]
      [] npc.state = "CHASE" -> last'.player_pos
      [] OTHER -> npc.start_pos

\* C27: when the path search of a move (of PATROL, CHASE or RETURN) returns
\* the empty path, the NPC keeps its position and its state in that update;
\* and a move attempted with an empty cached path runs the search again.
C27_EmptyPathStays ==
    [][(npc'.move_timer = 0 /\ npc.state \in {"PATROL", "CHASE", "RETURN"}) =>
           /\ npc'.current_path = <<>> =>
                  /\ npc'.pos = npc.pos
                  /\ npc'.state = npc.state
           /\ npc.current_path = <<>> =>
                  npc'.current_path =
                      find_path_bfs(adj_list, tile_map, npc.pos, MoveTarget).path]_vars

\* an NPC on patrol, away from its start cell, has found no path to its
\* next waypoint, an open cell that walls cut off
C27_Witness ==
    /\ npc.state = "PATROL"
    /\ npc.move_timer = 0
    /\ npc.has_interacted
    /\ npc.current_path = <<>>
    /\ npc.pos # npc.start_pos
    /\ npc.pos # npc.patrol_points[npc.patrol_index + 1]
    /\ Open(npc.patrol_points[npc.patrol_index + 1])

\* the move timer a move needs in the state of the NPC
DelayOf(n) == IF n.state = "CHASE" THEN ChaseDelay(n.npc_type) ELSE move_delay

\* C28: in one update an NPC changes position once at most, to the cell its
\* one move takes from the path, and only in PATROL, CHASE or RETURN when its
\* move timer, which every move attempt sets back to 0, has reached
\* move_delay (in CHASE move_delay / chase_speed); the state changes are
\* tested in every update, whatever the move timer; and an update that
\* changes the state leaves the position.
C28_OneStepWhenDue ==
    [][/\ npc'.pos # npc.pos =>
              /\ InSeq(npc'.current_path, npc'.pos)
              /\ npc.state \in {"PATROL", "CHASE", "RETURN"}
              /\ npc.move_timer + last'.dt >= DelayOf(npc)
              /\ npc'.move_timer = 0
       /\ npc'.state # npc.state => npc'.pos = npc.pos
       /\ (/\ npc.state = "PATROL"
           /\ npc.npc_type = "SECURITY"
           /\ Dist2(npc.pos, last'.player_pos) <
                  npc.detection_range * npc.detection_range)
              => npc'.state = "CHASE"
       /\ (npc.state = "RETURN" /\ npc.pos = npc.start_pos) => npc'.state = "PATROL"
       /\ (npc'.state = npc.state /\ npc.state \in {"PATROL", "CHASE", "RETURN"}) =>
              npc'.move_timer = IF npc.move_timer + last'.dt >= DelayOf(npc) THEN 0
                                ELSE npc.move_timer + last'.dt]_vars

\* a guard has waited a frame of 0.2 s in PATROL and in a second one has
\* taken the second step of its patrol path
C28_Witness ==
    /\ npc.state = "PATROL"
    /\ npc.move_timer = 0
    /\ last.op = "npc_update"
    /\ last.dt < move_delay
    /\ npc.path_index = 3
    /\ npc.pos = npc.current_path[3]

\* the NPC has a route of two waypoints or more, joined to one another by
\* the navigation graph
Routed ==
    /\ Len(npc.patrol_points) >= 2
    /\ \A i, j \in 1 .. Len(npc.patrol_points) :
           Connected(npc.patrol_points[i], npc.patrol_points[j])

\* what _patrol_move works on
PatrolProgress(n) == <<n.pos, n.current_path, n.path_index, n.patrol_index>>

\* C29 (as claimed): an NPC in PATROL with a route of connected waypoints
\* that stands on its current waypoint at a movement tick advances the
\* waypoint index by one modulo the length of the route and takes as cached
\* path a BFS path to the new waypoint; and it reaches every waypoint again
\* and again, so no movement tick in PATROL leaves position, cached path and
\* both indices as they were: _patrol_move reads nothing else, and an NPC it
\* has left unchanged once is left unchanged by every later call.
C29_PatrolCycles ==
    [][(/\ npc.state = "PATROL" /\ npc'.state = "PATROL"
        /\ Routed
        /\ npc'.move_timer = 0)
           => /\ npc.pos = npc.patrol_points[npc.patrol_index + 1] =>
                  /\ npc'.patrol_index =
                         (npc.patrol_index + 1) % Len(npc.patrol_points)
                  /\ npc'.current_path =
                         find_path_bfs(adj_list, tile_map, npc.pos,
                                       npc.patrol_points[npc'.patrol_index + 1]).path
              /\ PatrolProgress(npc') # PatrolProgress(npc)]_vars

\* C34 (as claimed): in every update the position of an NPC stays or changes
\* to a cell orthogonally adjacent to the one it had, in every FSM state and
\* after any sequence of state changes.
C34_NpcStepsAdjacent ==
    [][npc'.pos = npc.pos \/ Adjacent(npc.pos, npc'.pos)]_vars

\* a guard made without patrol route has left IDLE, has chased and met the
\* player, has patrolled and chased again and has just given up the chase
C24_Witness ==
    /\ npc.npc_type = "SECURITY"
    /\ npc.patrol_points = <<npc.start_pos>>
    /\ npc.has_interacted
    /\ npc.state = "RETURN"

----------------------------------------------------------------------------
(* Walkability and cell queries at coordinates in and around the grid *)

\* how far outside the grid the queries go
Margin == 1

ProbeX == (0 - Margin) .. (Width - 1 + Margin)
ProbeY == (0 - Margin) .. (Height - 1 + Margin)

\* a map as reset_game leaves it
InitWalk ==
    /\ tile_map \in SessionLayouts
    /\ grid = GridOf(tile_map)
    /\ LET G == build_from_rvce_grid(NewGraph, GridOf(tile_map), tile_map)
       IN  /\ adj_list = G.adj
           /\ weights = G.w
    /\ builds = 1
    /\ last = NoCall
    /\ IdleSession
    /\ handler = NewHandler
    /\ npc = NoNpc
    /\ active_events = <<>>
    /\ IdlePlay

\* game_map.is_walkable(x, y), and game_map.is_walkable(x, y, tile_map, has_key)
QueryWalkable ==
    /\ \E x \in ProbeX, y \in ProbeY, layered \in BOOLEAN, has_key \in BOOLEAN :
           last' = [op |-> "is_walkable", x |-> x, y |-> y, layered |-> layered,
                    has_key |-> has_key,
                    result |-> is_walkable(grid, x, y,
                                           IF layered THEN tile_map ELSE NoTileMap,
                                           has_key)]
    /\ UNCHANGED <<mapVars, graphVars, builds, sessionVars, actorVars, playVars>>

\* game_map.get_cell_value(x, y)
QueryCell ==
    /\ \E x \in ProbeX, y \in ProbeY :
           last' = [op |-> "get_cell_value", x |-> x, y |-> y,
                    result |-> get_cell_value(grid, x, y)]
    /\ UNCHANGED <<mapVars, graphVars, builds, sessionVars, actorVars, playVars>>

NextWalk == QueryWalkable \/ QueryCell

SpecWalk == InitWalk /\ [][NextWalk]_vars

\* C15: at every coordinate outside the grid, negative ones included,
\* is_walkable returns False, with or without tile layer and key, and
\* get_cell_value returns the blocked value 1.
C15_OutsideIsBlocked ==
    /\ (last.op = "is_walkable" /\ ~InBounds(last.x, last.y)) => last.result = FALSE
    /\ (last.op = "get_cell_value" /\ ~InBounds(last.x, last.y)) => last.result = 1

\* is_walkable has been asked, with tile layer and key, about a cell with a
\* negative coordinate whose wrapped-around cell is open
C15_Witness ==
    /\ last.op = "is_walkable"
    /\ last.x < 0
    /\ last.y \in 0 .. Height - 1
    /\ last.layered /\ last.has_key
    /\ grid[<<Width - 1, last.y>>] = 0
    /\ last.result = FALSE

----------------------------------------------------------------------------
(* A tile layer with a key and a locked gate: the key is picked up, the gate *)
(* is stepped on, the navigation graph is rebuilt                            *)

\* the layers with one KEY tile, one LOCKED_GATE tile and one blocked cell,
\* a WALL or a CONSTRUCTION; tiles are laid over open cells of the grid map
GateLayouts ==
    { [c \in Cells |-> IF c = k THEN "KEY"
                       ELSE IF c = gate THEN "LOCKED_GATE"
                       ELSE IF c = b THEN kind
                       ELSE "NORMAL"] :
          k \in Cells, gate \in Cells, b \in Cells, kind \in {"WALL", "CONSTRUCTION"} }

InitGate ==
    /\ tile_map \in {tm \in GateLayouts :
                         /\ \E c \in Cells : tm[c] = "KEY"
                         /\ \E c \in Cells : tm[c] = "LOCKED_GATE"
                         /\ \E c \in Cells : tm[c] \in {"WALL", "CONSTRUCTION"}}
    /\ grid = GridOf(tile_map)
    /\ LET G == build_from_rvce_grid(NewGraph, GridOf(tile_map), tile_map)
       IN  /\ adj_list = G.adj
           /\ weights = G.w
    /\ builds = 1
    /\ last = NoCall
    /\ IdleSession
    /\ handler = NewHandler
    /\ npc = NoNpc
    /\ active_events = <<>>
    /\ IdlePlay

\* the player steps on a cell that is_walkable lets it on, and process_tile
\* is called with the tile kind of the cell
StepOn ==
    /\ \E pos \in Cells, d \in 1 .. Len(Dirs) :
           /\ is_walkable(grid, pos[1], pos[2], tile_map, can_unlock_gate(handler))
           /\ d = 1 \/ tile_map[pos] = "ICE"
           /\ LET r == process_tile(handler, pos, tile_map[pos], Dirs[d], grid)
              IN  /\ handler' = r.handler
                  /\ grid' = r.grid
                  /\ last' = [op |-> "process_tile", pos |-> pos,
                              tile_type |-> tile_map[pos], new_pos |-> r.new_pos,
                              time_penalty |-> r.time_penalty, message |-> r.message]
    /\ UNCHANGED <<tile_map, graphVars, builds, sessionVars, npc, used_pathfinding,
                   active_events, playVars>>

\* nav_graph.build_from_rvce_grid(game_map, tile_map), once a tile effect has run
RebuildGraph ==
    /\ last.op = "process_tile"
    /\ LET G == build_from_rvce_grid(GraphOf(adj_list, weights), grid, tile_map)
       IN  /\ adj_list' = G.adj
           /\ weights' = G.w
    /\ last' = [op |-> "rebuild"]
    /\ UNCHANGED <<mapVars, builds, sessionVars, actorVars, playVars>>

NextGate == StepOn \/ RebuildGraph

SpecGate == InitGate /\ [][NextGate]_vars

\* what is_walkable answers for the gate, wall and construction cells
GateRule ==
    \A c \in Cells :
        /\ tile_map[c] = "LOCKED_GATE" =>
               is_walkable(grid, c[1], c[2], tile_map, handler.has_key) = handler.has_key
        /\ tile_map[c] \in {"WALL", "CONSTRUCTION"} =>
               /\ ~is_walkable(grid, c[1], c[2], tile_map, TRUE)
               /\ ~is_walkable(grid, c[1], c[2], tile_map, FALSE)

\* C16: once process_tile has handled a KEY tile the key is held for the rest
\* of the session; while it is held is_walkable returns True for every
\* LOCKED_GATE cell, before that False, and for WALL and CONSTRUCTION cells
\* it returns False with or without the key.
C16_KeyOpensGate ==
    [][/\ (last'.op = "process_tile" /\ last'.tile_type = "KEY") => handler'.has_key
       /\ handler.has_key => handler'.has_key
       /\ handler'.has_key =>
              \/ handler.has_key
              \/ last'.op = "process_tile" /\ last'.tile_type = "KEY"
       /\ GateRule /\ GateRule']_vars

\* with the key held, the player has stepped on the locked gate
C16_Witness ==
    /\ handler.has_key
    /\ last.op = "process_tile"
    /\ last.tile_type = "LOCKED_GATE"
    /\ \E c \in Cells : tile_map[c] = "CONSTRUCTION"

\* the walkable cells next to cell c, the key being held
OpenNextTo(c) ==
    {v \in Cells : Adjacent(c, v) /\ is_walkable(grid, v[1], v[2], tile_map, TRUE)}

\* C19 (as claimed): after a rebuild of the navigation graph with the key
\* held, every LOCKED_GATE cell is joined to each of its walkable orthogonal
\* neighbours; without the key no LOCKED_GATE cell has an edge.
C19_RebuildJoinsGate ==
    last.op = "rebuild" =>
        \A c \in Cells : tile_map[c] = "LOCKED_GATE" =>
            IF handler.has_key
            THEN \A v \in OpenNextTo(c) :
                     InSeq(AdjGet(adj_list, c), v) /\ InSeq(AdjGet(adj_list, v), c)
            ELSE /\ AdjGet(adj_list, c) = <<>>
                 /\ \A v \in Cells : ~InSeq(AdjGet(adj_list, v), c)

----------------------------------------------------------------------------
(* Session reset *)

\* C18 (as claimed): after reset_game the session is a fresh one: grid map,
\* tile layer and navigation graph are those of the static layout, tile
\* effects, construction sites and path are new, and the pathfinding-used
\* flag of the previous session does not carry over.
C18_ResetIsFresh ==
    last.op = "reset_game" =>
        /\ tile_map = StaticLayout
        /\ grid = GridOf(tile_map)
        /\ NavGraphFresh
        /\ handler = NewHandler
        /\ construction_sites = <<>>
        /\ construction_spawn_timer = first_spawn_timer
        /\ current_path = <<>>
        /\ player_pos = StartCell
        /\ used_pathfinding = FALSE

----------------------------------------------------------------------------
(* Construction sites of the session together with the map events of         *)
(* game_dynamics: ConstructionEvent.apply and MapEvent.revert                *)

\* the map events that may be active at a time
MaxEvents == 1

\* ConstructionEvent.apply (with MapEvent.apply): the event, the tile layer
\* and the grid map as the call leaves them
event_apply(positions, g, tm) ==
    LET inside == {c \in SeqRange(positions) : InBounds(c[1], c[2])}
    IN  [event |-> [positions |-> positions,
                    original_tiles |-> [c \in inside |-> tm[c]]],
         tile_map |-> [c \in Cells |-> IF c \in inside THEN "CONSTRUCTION" ELSE tm[c]],
         grid |-> g]

\* MapEvent.revert: the tile layer and the grid map as the call leaves them
event_revert(event, g, tm) ==
    [tile_map |-> [c \in Cells |-> IF c \in DOMAIN event.original_tiles
                                   THEN event.original_tiles[c] ELSE tm[c]],
     grid |-> g]

\* ConstructionEvent(positions).apply(game_map, tile_map), the event joining
\* the active events
EventApply ==
    /\ Len(active_events) < MaxEvents
    /\ \E center \in Cells :
           \E r \in {event_apply(<<center>>, grid, tile_map)} :
               /\ active_events' = Append(active_events, r.event)
               /\ tile_map' = r.tile_map
               /\ grid' = r.grid
    /\ last' = [NoCall EXCEPT !.op = "event_apply"]
    /\ UNCHANGED <<graphVars, builds, sessionVars, handler, npc, used_pathfinding,
                   playVars>>

\* event.revert(game_map, tile_map) of an active event, which leaves the
\* active events
EventRevert ==
    /\ \E i \in 1 .. Len(active_events) :
           \E r \in {event_revert(active_events[i], grid, tile_map)} :
               /\ active_events' = RemoveAt(active_events, i)
               /\ tile_map' = r.tile_map
               /\ grid' = r.grid
    /\ last' = [NoCall EXCEPT !.op = "event_revert"]
    /\ UNCHANGED <<graphVars, builds, sessionVars, handler, npc, used_pathfinding,
                   playVars>>

\* reset_game on a layout with one wall, the first task at the far corner
InitEvents ==
    /\ \E tm \in SlideLayouts :
           \E f \in {reset_game(tm, <<Width - 1, Height - 1>>)} :
               /\ grid = f.grid
               /\ tile_map = f.tile_map
               /\ adj_list = f.adj_list
               /\ weights = f.weights
               /\ player_pos = f.player_pos
               /\ target = f.target
               /\ construction_sites = f.construction_sites
               /\ construction_spawn_timer = f.construction_spawn_timer
               /\ current_path = f.current_path
               /\ algorithm_stats = f.algorithm_stats
               /\ handler = f.handler
    /\ builds = 1
    /\ last = NoCall
    /\ npc = NoNpc
    /\ used_pathfinding = FALSE
    /\ active_events = <<>>
    /\ IdlePlay

NextEvents == UpdateConstructionEvents \/ EventApply \/ EventRevert

SpecEvents == InitEvents /\ [][NextEvents]_vars

\* C20 (as claimed): after any sequence of construction spawns and expiries
\* and of map-event applies and reverts, every WALL or CONSTRUCTION cell is
\* blocked in the grid map, and no cell stays blocked in the grid map once
\* its construction has ended.
C20_TilesMatchGrid ==
    \A c \in Cells :
        /\ tile_map[c] \in {"WALL", "CONSTRUCTION"} => grid[c] = 1
        /\ grid[c] = 1 => tile_map[c] \in {"WALL", "CONSTRUCTION"}

----------------------------------------------------------------------------
(* The EventManager of game_dynamics, driven through update: events are     *)
(* generated, queued, applied, and reverted when their time has run out.    *)
(* Times are in seconds.                                                    *)

\* the seconds one update is handed
EventTick == 5

\* EventManager.next_event_time after __init__, and EventManager.event_interval
first_event_time == 15
event_interval == 20

\* EventManager.__init__ and set_available_positions; event_timer and
\* next_event_time are only compared with one another, so the seconds left
\* to next_event_time are kept in their place
NewManager(tm) ==
    [event_queue |-> <<>>,
     active_events |-> <<>>,
     next_event_in |-> first_event_time,
     available_positions |-> {c \in Cells : tm[c] = "NORMAL"}]

\* MapEvent.__init__, for the kinds of event generate_random_event makes
NewEvent(event_type, positions, duration) ==
    [event_type |-> event_type, time_remaining |-> duration,
     positions |-> positions, active |-> FALSE, original_tiles |-> EmptyFcn]

\* apply of ConstructionEvent and FireDrillEvent (with MapEvent.apply) and of
\* RainEvent: the event and the tile layer as the call leaves them
map_event_apply(event, tm) ==
    IF event.event_type = "RAIN"
    THEN [event |-> [event EXCEPT !.active = TRUE], tile_map |-> tm]
    ELSE LET inside == {c \in SeqRange(event.positions) : InBounds(c[1], c[2])}
         IN  [event |-> [event EXCEPT !.active = TRUE,
                                      !.original_tiles = [c \in inside |-> tm[c]]],
              tile_map |-> [c \in Cells |->
                               IF c \in inside THEN "CONSTRUCTION" ELSE tm[c]]]

\* MapEvent.revert, and RainEvent.revert: the tile layer as the call leaves it
map_event_revert(event, tm) ==
    IF event.event_type = "RAIN" THEN tm
    ELSE [c \in Cells |-> IF c \in DOMAIN event.original_tiles
                          THEN event.original_tiles[c] ELSE tm[c]]

\* the while loop of update that applies the queued events in queue order
RECURSIVE ApplyQueued(_, _, _)
ApplyQueued(queue, active, tm) ==
    IF queue = <<>> THEN [active_events |-> active, tile_map |-> tm]
    ELSE LET r == map_event_apply(Head(queue), tm)
         IN  ApplyQueued(Tail(queue), Append(active, r.event), r.tile_map)

\* the for loop of update over the active events: event.update(dt), and
\* revert for the events whose time has run out
RECURSIVE UpdateActive(_, _, _, _, _)
UpdateActive(active, i, dt, still_active, tm) ==
    IF i > Len(active)
    THEN [active_events |-> still_active, tile_map |-> tm,
          reverted |-> Len(active) - Len(still_active)]
    ELSE LET event == [active[i] EXCEPT !.time_remaining =
                           IF active[i].active THEN @ - dt ELSE @]
         IN  IF event.active /\ event.time_remaining > 0
             THEN UpdateActive(active, i + 1, dt, Append(still_active, event), tm)
             ELSE UpdateActive(active, i + 1, dt, still_active,
                               map_event_revert(event, tm))

\* a graph_changed that is set by the applied events alone
graph_changed_on_apply(applied, reverted) == applied > 0

\* graph_changed at the end of update
graph_changed(applied, reverted) == applied > 0 \/ reverted > 0

\* EventManager.update(dt, game_map, tile_map, graph_rebuild_callback) with
\* the callback of RVCECampusRunner.update, which rebuilds the navigation
\* graph; generated is the event generate_random_event returns at this call
\* when one is due (None when it returns None)
manager_update(em, dt, generated, g, tm, G) ==
    LET timer == em.next_event_in - dt
        due == timer <= 0
        queue == IF due /\ generated # None
                 THEN Append(em.event_queue, generated) ELSE em.event_queue
        a == ApplyQueued(queue, em.active_events, tm)
        u == UpdateActive(a.active_events, 1, dt, <<>>, a.tile_map)
        changed == graph_changed(Len(queue), u.reverted)
        G1 == IF changed THEN build_from_rvce_grid(G, g, u.tile_map) ELSE G
    IN  [event_manager |-> [em EXCEPT !.event_queue = <<>>,
                                      !.active_events = u.active_events,
                                      !.next_event_in =
                                          IF due THEN event_interval ELSE timer],
         tile_map |-> u.tile_map,
         graph |-> G1,
         callbacks |-> IF changed THEN 1 ELSE 0,
         returned |-> changed]

\* the cells a generated construction is centred at, the neighbours drawn,
\* and the seconds it may last (random.randint(15, 30))
EventSpots == {<<0, 0>>, <<1, 0>>}
EventDraws == {{}, {2}}
ConstructionTimes == {15, 30}

\* the seconds a rain may last (random.randint(15, 25))
RainTimes == {15, 25}

\* the loop of generate_random_event that adds to positions the neighbours
\* of the centre drawn by random.random() > 0.5 that are available
RECURSIVE EventPositions(_, _, _, _, _)
EventPositions(positions, center, drawn, d, available) ==
    IF d > Len(Dirs) THEN positions
    ELSE LET n == <<center[1] + Dirs[d][1], center[2] + Dirs[d][2]>>
         IN  IF d \in drawn /\ n \in available
             THEN EventPositions(Append(positions, n), center, drawn, d + 1, available)
             ELSE EventPositions(positions, center, drawn, d + 1, available)

\* the seconds a fire drill may last (random.randint(20, 30)), and the cells
\* its positions are sampled from: the two top rows
DrillTimes == {20, 30}
DrillWindow == {c \in Cells : c[2] <= 1}

\* the cells of S as a list, in row-major order from cell number i on
RECURSIVE CellsInOrder(_, _)
CellsInOrder(S, i) ==
    IF i > Width * Height THEN <<>>
    ELSE IF CellAt(i) \in S THEN <<CellAt(i)>> \o CellsInOrder(S, i + 1)
         ELSE CellsInOrder(S, i + 1)

\* random.sample(available_positions, min(5, len(available_positions)))
DrillSamples(available) ==
    LET k == IF Cardinality(available) < 5 THEN Cardinality(available) ELSE 5
    IN  {CellsInOrder(S, 1) :
            S \in {T \in SUBSET (available \cap DrillWindow) : Cardinality(T) = k}}

\* the events generate_random_event may return: a construction, a rain or a
\* fire drill
generate_random_event(em) ==
    IF em.available_positions = {} THEN {None}
    ELSE {NewEvent("CONSTRUCTION",
                   SubSeq(EventPositions(<<center>>, center, drawn, 1,
                                         em.available_positions), 1,
                          IF Len(EventPositions(<<center>>, center, drawn, 1,
                                                em.available_positions)) > 4
                          THEN 4
                          ELSE Len(EventPositions(<<center>>, center, drawn, 1,
                                                  em.available_positions))),
                   duration) :
              center \in EventSpots \cap em.available_positions,
              drawn \in EventDraws, duration \in ConstructionTimes}
         \cup {NewEvent("RAIN", <<>>, duration) : duration \in RainTimes}
         \cup {NewEvent("FIRE_DRILL", positions, duration) :
                   positions \in DrillSamples(em.available_positions),
                   duration \in DrillTimes}

\* reset_game with an EventManager made and its available positions set
InitManager ==
    /\ tile_map \in SlideLayouts
    /\ grid = GridOf(tile_map)
    /\ LET G == build_from_rvce_grid(NewGraph, GridOf(tile_map), tile_map)
       IN  /\ adj_list = G.adj
           /\ weights = G.w
    /\ builds = 1
    /\ last = NoCall
    /\ IdleSession
    /\ handler = NewHandler
    /\ npc = NoNpc
    /\ active_events = <<>>
    /\ buildings = <<>>
    /\ task_manager = NewTaskManager
    /\ score = 0
    /\ task_steps = 0
    /\ expected_path_length = 0
    /\ undo_stack = <<>>
    /\ npcs = <<>>
    /\ error = "None"
    /\ event_manager = NewManager(tile_map)
    /\ assigned = NoAssignment

\* event_manager.update(dt, game_map, tile_map, rebuild_graph)
ManagerUpdate ==
    /\ \E generated \in generate_random_event(event_manager) :
           \E r \in {manager_update(event_manager, EventTick, generated, grid,
                                    tile_map, GraphOf(adj_list, weights))} :
               /\ event_manager' = r.event_manager
               /\ tile_map' = r.tile_map
               /\ adj_list' = r.graph.adj
               /\ weights' = r.graph.w
               /\ last' = [op |-> "manager_update",
                           generated |-> (event_manager.next_event_in <= EventTick
                                          /\ generated # None),
                           callbacks |-> r.callbacks, returned |-> r.returned]
    /\ UNCHANGED <<grid, builds, sessionVars, actorVars, buildings, task_manager,
                   score, task_steps, expected_path_length, undo_stack, npcs, error,
                   assigned>>

NextManager == ManagerUpdate

SpecManager == InitManager /\ [][NextManager]_vars

\* what the update just made has applied and reverted, read off the queue,
\* the event generated and the active events before and after
AppliedNow == Len(event_manager.event_queue) + (IF last'.generated THEN 1 ELSE 0)
RevertedNow ==
    Len(event_manager.active_events) + AppliedNow
        - Len(event_manager'.active_events)

\* C32: an update of the EventManager that has applied a queued event or
\* reverted an expired one calls the graph-rebuild callback once, after the
\* tile changes of the call (the navigation graph is then the graph of the
\* tile layer the call leaves), and returns True; an update that has applied
\* and reverted nothing does not call it, leaves the graph alone and returns
\* False.
C32_RebuildOnEventChange ==
    /\ []((last.op = "manager_update" /\ last.callbacks = 1) => NavGraphFresh)
    /\ [][last'.op = "manager_update" =>
              IF AppliedNow > 0 \/ RevertedNow > 0
              THEN /\ last'.returned = TRUE
                   /\ last'.callbacks = 1
              ELSE /\ last'.returned = FALSE
                   /\ last'.callbacks = 0
                   /\ adj_list' = adj_list
                   /\ weights' = weights
                   /\ tile_map' = tile_map]_vars

\* an update has reverted an event and applied none, has called the callback,
\* and the graph has the edges of a cell that was under construction
C32_Witness ==
    /\ last.op = "manager_update"
    /\ ~last.generated
    /\ last.callbacks = 1
    /\ last.returned
    /\ event_manager.active_events = <<>>
    /\ \A c \in Cells : tile_map[c] # "CONSTRUCTION"
    /\ AdjGet(adj_list, <<0, 0>>) # <<>>

\* the tile layer reset_game makes for the grid map: WALL on the blocked
\* cells, NORMAL on the others; the EventManager leaves the grid map alone,
\* so this is the layer before the first event was applied
LayerBeforeEvents == [c \in Cells |-> IF grid[c] = 1 THEN "WALL" ELSE "NORMAL"]

\* C36 (as claimed): whenever every event of the EventManager has expired
\* and been reverted (none is queued, none is active), the tile layer is the
\* layer as it was before the first event was applied.
C36_EventsRestoreTiles ==
    (/\ event_manager # NoManager
     /\ event_manager.event_queue = <<>>
     /\ event_manager.active_events = <<>>) => tile_map = LayerBeforeEvents

----------------------------------------------------------------------------
(* A playing session with its tasks: the arrow keys, the U, N, B and L keys *)
(* and the construction events of update.  The layer of a session holds     *)
(* NORMAL, WALL and CONSTRUCTION tiles only, so no tile sets a move         *)
(* cooldown, a slide or a teleport; the NPCs are kept as spawn_npcs makes   *)
(* them.                                                                    *)

\* the entries the undo stack keeps (UndoStack.max_size, 50 in the program)
max_size == 1

\* the steps of one task the arrow keys are followed to
MaxSteps == 4

\* the points of check_task_completion
base_points == 50
no_pathfinding_bonus == 20
optimal_bonus == 30

\* time_remaining * 2 at the completion of the last task
TimeBonuses == {0, 20}

\* no task: TaskManager.current_task is None, get_next_task returns None
NoTask == 0

\* UndoStack.push
undo_push(stack, state) ==
    IF Len(stack) >= max_size THEN Append(Tail(stack), state)
    ELSE Append(stack, state)

\* UndoStack.pop: the stack it leaves
undo_pop(stack) ==
    IF stack # <<>> THEN SubSeq(stack, 1, Len(stack) - 1) ELSE stack

\* TaskManager.assign_task; tasks maps the id of a task to the cell of its
\* building
assign_task(tmgr, task_id) ==
    IF task_id \in DOMAIN tmgr.tasks /\ task_id \notin tmgr.completed_tasks
    THEN [task_manager |-> [tmgr EXCEPT !.current_task = task_id],
          returned |-> TRUE]
    ELSE [task_manager |-> tmgr, returned |-> FALSE]

\* a completion that leaves the task the current one
complete_task_keeping(tmgr, task_id) ==
    IF task_id = tmgr.current_task
    THEN [tmgr EXCEPT !.completed_tasks = @ \cup {task_id}]
    ELSE tmgr

\* TaskManager.complete_task
complete_task(tmgr, task_id) ==
    IF task_id = tmgr.current_task
    THEN [tmgr EXCEPT !.completed_tasks = @ \cup {task_id},
                      !.current_task = NoTask]
    ELSE tmgr

\* TaskManager.get_next_task: the ids random.choice may return
get_next_task(tmgr) ==
    LET available_tasks == {task_id \in DOMAIN tmgr.tasks :
                                task_id \notin tmgr.completed_tasks}
    IN  IF available_tasks # {} THEN available_tasks ELSE {NoTask}

\* the members of the enumeration NPCType
NPCType == {"STUDENT", "SECURITY", "PROFESSOR"}

\* NPCManager.spawn_npcs: the type and the cell of the NPCs it makes for the
\* buildings bs
spawn_npcs(bs) ==
    LET students == [i \in 1 .. (IF Len(bs) < 3 THEN Len(bs) ELSE 3) |->
                         [npc_type |-> "STUDENT", pos |-> bs[i]]]
        security == IF Len(bs) > 2
                    THEN <<[npc_type |-> "SECURITY", pos |-> bs[(Len(bs) \div 2) + 1]]>>
                    ELSE <<>>
        professor == IF Len(bs) > 4
                     THEN <<[npc_type |-> "PROFESSOR", pos |-> bs[4]]>>
                     ELSE <<>>
    IN  students \o security \o professor

\* the hops of the path find_path_bfs gives from a cell to a building
HopsTo(adj, tm, from, to) == Len(find_path_bfs(adj, tm, from, to).path) - 1

\* the fields check_task_completion reads and writes
PlayState ==
    [player_pos |-> player_pos, score |-> score, task_manager |-> task_manager,
     task_steps |-> task_steps, used_pathfinding |-> used_pathfinding,
     expected_path_length |-> expected_path_length, adj_list |-> adj_list,
     algorithm_stats |-> algorithm_stats, target |-> target,
     assigned |-> assigned, completed |-> NoTask, optimal |-> FALSE]

\* the player stands on the building of the current task
AtBuilding(st) ==
    /\ st.task_manager.current_task # NoTask
    /\ st.player_pos = st.task_manager.tasks[st.task_manager.current_task]

\* RVCECampusRunner.check_task_completion, next_task being what
\* get_next_task returns and time_bonus what the time left gives
check_task_completion(st, tm, next_task, time_bonus) ==
    IF ~AtBuilding(st) THEN st
    ELSE LET tmgr == st.task_manager
             cur == tmgr.current_task
             no_pathfinding == ~st.used_pathfinding
             optimal == /\ no_pathfinding
                        /\ st.expected_path_length > 0
                        /\ st.task_steps <= st.expected_path_length
             total_points == base_points
                             + (IF no_pathfinding THEN no_pathfinding_bonus ELSE 0)
                             + (IF optimal THEN optimal_bonus ELSE 0)
             done == [st EXCEPT !.score = @ + total_points,
                                !.task_manager = complete_task(tmgr, cur),
                                !.task_steps = 0,
                                !.used_pathfinding = FALSE,
                                !.completed = cur,
                                !.optimal = optimal]
         IN  IF next_task # NoTask
             THEN LET t == assign_task(done.task_manager, next_task).task_manager
                      new_target == t.tasks[t.current_task]
                      r == find_path_bfs(st.adj_list, tm, st.player_pos, new_target)
                  IN  [done EXCEPT !.task_manager = t,
                                   !.target = new_target,
                                   !.expected_path_length = Len(r.path),
                                   !.adj_list = r.adj,
                                   !.algorithm_stats.BFS = r.nodes_explored,
                                   !.assigned = [at |-> st.player_pos,
                                                 hops |-> Len(r.path) - 1,
                                                 moves |-> 0]]
             ELSE [done EXCEPT !.score = @ + time_bonus]

\* what get_next_task returns and the time bonus in a call of
\* check_task_completion on st: both are drawn only when a task is completed
NextDraws(st) ==
    IF AtBuilding(st)
    THEN get_next_task(complete_task(st.task_manager, st.task_manager.current_task))
    ELSE {NoTask}

BonusDraws(st) ==
    IF AtBuilding(st) /\ NextDraws(st) = {NoTask} THEN TimeBonuses ELSE {0}

\* the buildings of the campus and the layers of a session: reset_game puts
\* the player at a cell setup_rvce_campus leaves blocked, one step from the
\* roads
PlayBuildings == << <<1, 1>>, <<Width - 1, Height - 1>> >>

PlayLayouts ==
    {tm \in SessionLayouts : /\ tm[StartCell] = "WALL"
                             /\ \A i \in DOMAIN PlayBuildings :
                                    tm[PlayBuildings[i]] = "NORMAL"}

\* setup_academic_tasks: random.sample of the buildings, in the order drawn
TaskDraws == {PlayBuildings, <<PlayBuildings[2], PlayBuildings[1]>>}

\* reset_game with the buildings, the tasks (the first of them assigned), the
\* NPCs and the expected path of the first task
InitPlay ==
    /\ \E tm \in PlayLayouts, tasks \in TaskDraws :
           \E first_task \in DOMAIN tasks :
               \E f \in {reset_game(tm, tasks[first_task])} :
                   /\ grid = f.grid
                   /\ tile_map = f.tile_map
                   /\ adj_list = f.adj_list
                   /\ weights = f.weights
                   /\ player_pos = f.player_pos
                   /\ target = f.target
                   /\ construction_sites = f.construction_sites
                   /\ construction_spawn_timer = f.construction_spawn_timer
                   /\ current_path = f.current_path
                   /\ algorithm_stats = f.algorithm_stats
                   /\ handler = f.handler
                   /\ task_manager =
                          assign_task([NewTaskManager EXCEPT !.tasks = tasks],
                                      first_task).task_manager
                   /\ expected_path_length =
                          Len(find_path_bfs(f.adj_list, tm, StartCell,
                                            tasks[first_task]).path)
                   /\ assigned = [at |-> StartCell,
                                  hops |-> HopsTo(f.adj_list, tm, StartCell,
                                                  tasks[first_task]),
                                  moves |-> 0]
    /\ builds = 1
    /\ last = NoCall
    /\ npc = NoNpc
    /\ active_events = <<>>
    /\ used_pathfinding = FALSE
    /\ buildings = PlayBuildings
    /\ score = 0
    /\ task_steps = 0
    /\ undo_stack = <<>>
    /\ npcs = spawn_npcs(PlayBuildings)
    /\ error = "None"
    /\ event_manager = NoManager

\* an arrow key in handle_input: the push on the undo stack, the move when
\* the cell is walkable, the tile effect and check_task_completion
ArrowKey ==
    /\ error = "None"
    /\ task_steps < MaxSteps
    /\ \E d \in DOMAIN Dirs :
           LET new == <<player_pos[1] + Dirs[d][1], player_pos[2] + Dirs[d][2]>>
               has_key == can_unlock_gate(handler)
           IN  /\ undo_stack' = undo_push(undo_stack, [position |-> player_pos,
                                                       score |-> score])
               /\ IF is_walkable(grid, new[1], new[2], tile_map, has_key)
                  THEN \E t \in {process_tile(handler, new, tile_map[new], Dirs[d], grid)} :
                       \E st0 \in {[PlayState EXCEPT
                                       !.player_pos = t.new_pos,
                                       !.task_steps = @ + 1,
                                       !.assigned.moves = @ + 1]} :
                       \E next_task \in NextDraws(st0), time_bonus \in BonusDraws(st0) :
                       \E st \in {check_task_completion(st0, tile_map, next_task,
                                                        time_bonus)} :
                           /\ player_pos' = st.player_pos
                           /\ score' = st.score
                           /\ task_manager' = st.task_manager
                           /\ task_steps' = st.task_steps
                           /\ used_pathfinding' = st.used_pathfinding
                           /\ expected_path_length' = st.expected_path_length
                           /\ adj_list' = st.adj_list
                           /\ algorithm_stats' = st.algorithm_stats
                           /\ target' = st.target
                           /\ assigned' = st.assigned
                           /\ handler' = t.handler
                           /\ grid' = t.grid
                           /\ last' = [op |-> "arrow", moved |-> TRUE,
                                       completed |-> st.completed,
                                       optimal |-> st.optimal]
                  ELSE /\ last' = [op |-> "arrow", moved |-> FALSE,
                                   completed |-> NoTask, optimal |-> FALSE]
                       /\ UNCHANGED <<player_pos, score, task_manager, task_steps,
                                      used_pathfinding, expected_path_length,
                                      adj_list, algorithm_stats, target, assigned,
                                      handler, grid>>
    /\ UNCHANGED <<tile_map, weights, builds, construction_sites,
                   construction_spawn_timer, current_path, npc, active_events,
                   buildings, npcs, error, event_manager>>

\* the U key: RVCECampusRunner.undo_move
UndoMove ==
    /\ error = "None"
    /\ undo_stack' = undo_pop(undo_stack)
    /\ IF undo_stack # <<>>
       THEN /\ player_pos' = undo_stack[Len(undo_stack)].position
            /\ score' = undo_stack[Len(undo_stack)].score
       ELSE UNCHANGED <<player_pos, score>>
    /\ last' = [op |-> "undo_move"]
    /\ UNCHANGED <<mapVars, graphVars, builds, target, construction_sites,
                   construction_spawn_timer, current_path, algorithm_stats,
                   actorVars, buildings, task_manager, task_steps,
                   expected_path_length, npcs, error, event_manager, assigned>>

\* the N key: get_next_task and assign_task; the step counter, the expected
\* path length and the pathfinding flag are left as they are
KeyN ==
    /\ error = "None"
    /\ \E next_task \in get_next_task(task_manager) :
           IF next_task # NoTask
           THEN /\ task_manager' = assign_task(task_manager, next_task).task_manager
                /\ target' = task_manager.tasks[next_task]
                /\ assigned' = IF next_task = task_manager.current_task
                               THEN assigned
                               ELSE [at |-> player_pos,
                                     hops |-> HopsTo(adj_list, tile_map, player_pos,
                                                     task_manager.tasks[next_task]),
                                     moves |-> 0]
           ELSE UNCHANGED <<task_manager, target, assigned>>
    /\ last' = [op |-> "key_n"]
    /\ UNCHANGED <<mapVars, graphVars, builds, player_pos, construction_sites,
                   construction_spawn_timer, current_path, algorithm_stats,
                   actorVars, buildings, score, task_steps, expected_path_length,
                   undo_stack, npcs, error, event_manager>>

\* the B key while a task is assigned
PlayKeyB ==
    /\ error = "None"
    /\ task_manager.current_task # NoTask
    /\ KeyB

\* the L key of handle_input: the search of the roster for a lab assistant
\* within npc_hint_range while a construction is active, and the clearing of
\* the sites for 5 points when one is found; naming a member NPCType does
\* not have raises AttributeError, which nothing catches
KeyL ==
    /\ error = "None"
    /\ LET looked == construction_sites # <<>> /\ npcs # <<>>
           lab_assistant_nearby ==
               \E i \in DOMAIN npcs :
                   /\ npcs[i].npc_type = "LAB_ASSISTANT"
                   /\ Dist2(player_pos, npcs[i].pos) <= npc_hint_range * npc_hint_range
           cleared == SeqRange([i \in DOMAIN construction_sites |->
                                   <<construction_sites[i][1], construction_sites[i][2]>>])
       IN  IF looked /\ "LAB_ASSISTANT" \notin NPCType
           THEN /\ error' = "AttributeError"
                /\ UNCHANGED <<mapVars, construction_sites, score>>
           ELSE IF looked /\ lab_assistant_nearby
           THEN /\ tile_map' = [c \in Cells |-> IF c \in cleared THEN "NORMAL"
                                                ELSE tile_map[c]]
                /\ grid' = [c \in Cells |-> IF c \in cleared THEN 0 ELSE grid[c]]
                /\ construction_sites' = <<>>
                /\ score' = score - 5
                /\ UNCHANGED error
           ELSE UNCHANGED <<mapVars, construction_sites, score, error>>
    /\ last' = [op |-> "key_l", sites |-> Len(construction_sites)]
    /\ UNCHANGED <<graphVars, builds, player_pos, target, construction_spawn_timer,
                   current_path, algorithm_stats, actorVars, buildings,
                   task_manager, task_steps, expected_path_length, undo_stack,
                   npcs, event_manager, assigned>>

\* the draws of _spawn_construction_site that are followed: a site of one
\* cell beside the start, the next spawn 30 s later
RoadCenters == {<<0, 1>>}
RoadDraws == {{}}
RoadIntervals == {30}

\* RVCECampusRunner.update in a playing session: the construction events
PlayUpdate ==
    /\ error = "None"
    /\ ConstructionEventsAt(RoadCenters, RoadDraws, RoadIntervals)

\* the keys that bear on the tasks, on a map without construction
NextPlay == ArrowKey \/ UndoMove \/ KeyN \/ PlayKeyB

SpecPlay == InitPlay /\ [][NextPlay]_vars

\* the moves, the L key and the construction events
NextRoad == ArrowKey \/ UndoMove \/ KeyL \/ PlayUpdate

SpecRoad == InitPlay /\ [][NextRoad]_vars

\* C33 (as claimed): the L key pressed in a playing session while a
\* construction site is active and no lab assistant is within hint range
\* raises no error and leaves the tile layer, the grid map, the construction
\* sites and the score as they are, whatever the roster of NPCs.
C33_KeyLHarmless ==
    [][(/\ last'.op = "key_l"
        /\ construction_sites # <<>>
        /\ ~\E i \in DOMAIN npcs :
               /\ npcs[i].npc_type = "LAB_ASSISTANT"
               /\ Dist2(player_pos, npcs[i].pos) <= npc_hint_range * npc_hint_range)
           => /\ error' = "None"
              /\ tile_map' = tile_map
              /\ grid' = grid
              /\ construction_sites' = construction_sites
              /\ score' = score]_vars

\* C35 (as claimed): in every state of a playing session the cell of the
\* player is walkable in the grid map and the tile layer, given the key the
\* player may hold.
C35_PlayerOnWalkableCell ==
    is_walkable(grid, player_pos[1], player_pos[2], tile_map,
                can_unlock_gate(handler))

\* C38 (as claimed): the optimal-path bonus is given at the completion of a
\* task only when no path search was used for the task and the moves the
\* player has made since the task was assigned, the completing one counted,
\* are no more than the hops of the BFS path found from the cell of the
\* assignment to the building.
C38_OptimalBonusEarned ==
    [][(/\ last'.op = "arrow"
        /\ last'.optimal)
           => /\ ~used_pathfinding
              /\ assigned.moves + 1 <= assigned.hops]_vars

\* C39: the current task is never a completed one, assign_task refuses every
\* completed task and leaves the manager as it is, get_next_task returns no
\* completed task, and completed_tasks never loses a task.
C39_CompletedStaysCompleted ==
    /\ [](task_manager.current_task \notin task_manager.completed_tasks)
    /\ [](\A task_id \in task_manager.completed_tasks :
              /\ ~assign_task(task_manager, task_id).returned
              /\ assign_task(task_manager, task_id).task_manager = task_manager
              /\ task_id \notin get_next_task(task_manager))
    /\ [][/\ task_manager.completed_tasks \subseteq task_manager'.completed_tasks
          /\ task_manager'.current_task \notin task_manager.completed_tasks]_vars

\* a task has been completed, another is open, and N has been pressed
C39_Witness ==
    /\ last.op = "key_n"
    /\ task_manager.completed_tasks # {}
    /\ task_manager.current_task # NoTask

====
